---- MODULE Spec2Model ----
(***************************************************************************)
(* State-machine model of the reindeer-maze solver                         *)
(* (2024/Day16/solution_day16_aoc2024.py): Maze.find_optimal_paths and     *)
(* main, with the heapq priority queue and the attrs-generated equality    *)
(* the solver relies on; followed by the models of the Day 9 disk map,     *)
(* the Day 6 lab map, the Day 15 warehouse and the 2025 Day 8 circuits.    *)
(***************************************************************************)
EXTENDS Integers, Sequences, FiniteSets, TLC

VARIABLES maze, cell_map, path_queue, best_path, best_paths, pc, outcome, prev,
          text, disk, lab, compared, warehouse, manager

vars == <<maze, cell_map, path_queue, best_path, best_paths, pc, outcome, prev,
          text, disk, lab, compared, warehouse, manager>>

\* The state of the other programs of the repository: the Day 9 Disk, the
\* Day 6 LabMap, a pair of Distances under comparison, the Day 15 Warehouse
\* and the 2025 Day 8 ConnectionManager.
other_days == <<disk, lab, compared, warehouse, manager>>

\* No Disk and no LabMap has been constructed.
NoDisk == [pc |-> "none"]
NoLab == [pc |-> "none"]

\* No pair of Distances is compared, and no Warehouse and no
\* ConnectionManager has been constructed.
NoCompared == [pc |-> "none"]
NoWarehouse == [pc |-> "none"]
NoManager == [pc |-> "none"]

(***************************************************************************)
(* Bounds of the model.                                                    *)
(***************************************************************************)
\* Largest number of cells (height * width) of an enumerated input grid.
MaxCells == 9
\* Largest number of cells of a grid on which the solver is run twice.
MaxPairCells == 6

(***************************************************************************)
(* Program constants.                                                      *)
(***************************************************************************)
\* Weight of one turn in Distance.score.
TurnWeight == 1000
\* math.inf, the default of Distance.turns and Distance.steps.
Inf == 1000000000

(***************************************************************************)
(* Direction                                                               *)
(***************************************************************************)
\* Iteration order of the Direction enum.
DirectionOrder == <<"EAST", "NORTH", "WEST", "SOUTH">>

Directions == {"EAST", "NORTH", "WEST", "SOUTH"}

\* Direction.value: the change in (y, x).
DirectionValue(d) ==
    CASE d = "EAST"  -> <<0, -1>>
      [] d = "NORTH" -> <<-1, 0>>
      [] d = "WEST"  -> <<0, 1>>
      [] d = "SOUTH" -> <<1, 0>>

Opposite(d) ==
    CASE d = "EAST"  -> "WEST"
      [] d = "NORTH" -> "SOUTH"
      [] d = "WEST"  -> "EAST"
      [] d = "SOUTH" -> "NORTH"

Left(d) ==
    CASE d = "EAST"  -> "SOUTH"
      [] d = "NORTH" -> "EAST"
      [] d = "WEST"  -> "NORTH"
      [] d = "SOUTH" -> "WEST"

Right(d) ==
    CASE d = "EAST"  -> "NORTH"
      [] d = "NORTH" -> "WEST"
      [] d = "WEST"  -> "SOUTH"
      [] d = "SOUTH" -> "EAST"

(***************************************************************************)
(* Distance                                                                *)
(***************************************************************************)
\* Distance(turns, steps).
Distance(t, s) == [turns |-> t, steps |-> s]

\* Distance(): both fields default to math.inf.
DistanceDefault == Distance(Inf, Inf)

\* Distance.score; anything involving math.inf is math.inf.
Score(d) ==
    IF d.turns = Inf \/ d.steps = Inf
    THEN Inf
    ELSE (d.turns * TurnWeight) + d.steps

\* Distance.__lt__
DistanceLt(a, b) == Score(a) < Score(b)

\* Distance.__le__
DistanceLe(a, b) == Score(a) <= Score(b)

\* Distance.__eq__ as generated by attrs: field-wise (turns, steps) equality.
DistanceEq(a, b) == a.turns = b.turns /\ a.steps = b.steps

AddTurns(d, n) == Distance(IF d.turns = Inf THEN Inf ELSE d.turns + n, d.steps)

AddSteps(d, n) == Distance(d.turns, IF d.steps = Inf THEN Inf ELSE d.steps + n)

(***************************************************************************)
(* DistanceMap: a function from the four direction names to Distances.     *)
(***************************************************************************)
\* DistanceMap(): every direction defaults to Distance().
DistanceMapDefault == [x \in Directions |-> DistanceDefault]

\* from_direction with the opposite direction charged a single turn.
FromDirectionCheapReverse(direction, distance) ==
    [x \in Directions |->
        IF x = direction THEN distance
        ELSE IF x = Opposite(direction) THEN AddTurns(distance, 1)
        ELSE IF x = Left(direction) THEN AddTurns(distance, 1)
        ELSE AddTurns(distance, 1)]

\* DistanceMap.from_direction
FromDirection(direction, distance) ==
    [x \in Directions |->
        IF x = direction THEN distance
        ELSE IF x = Opposite(direction) THEN AddTurns(distance, 2)
        ELSE IF x = Left(direction) THEN AddTurns(distance, 1)
        ELSE AddTurns(distance, 1)]

\* min(a, b) of Python for two arguments: b replaces a only when b < a.
MinDistance(a, b) == IF DistanceLt(b, a) THEN b ELSE a

\* DistanceMap.distance: min(EAST, NORTH, WEST, SOUTH), first minimum wins.
MapDistance(m) ==
    MinDistance(MinDistance(MinDistance(m["EAST"], m["NORTH"]), m["WEST"]), m["SOUTH"])

\* DistanceMap.__lt__: all four directions strictly smaller.
MapLt(a, b) ==
    /\ DistanceLt(a["EAST"], b["EAST"])
    /\ DistanceLt(a["NORTH"], b["NORTH"])
    /\ DistanceLt(a["WEST"], b["WEST"])
    /\ DistanceLt(a["SOUTH"], b["SOUTH"])

\* DistanceMap.__le__: any direction smaller or equal.
MapLe(a, b) ==
    \/ DistanceLe(a["EAST"], b["EAST"])
    \/ DistanceLe(a["NORTH"], b["NORTH"])
    \/ DistanceLe(a["WEST"], b["WEST"])
    \/ DistanceLe(a["SOUTH"], b["SOUTH"])

\* a > b on DistanceMaps: no __gt__ is defined, so Python evaluates the
\* reflected b.__lt__(a).
MapGt(a, b) == MapLt(b, a)

(***************************************************************************)
(* CellPath                                                                *)
(***************************************************************************)
CellPath(position, visited, distance_map) ==
    [position |-> position, visited |-> visited, distance_map |-> distance_map]

\* CellPath.__lt__
PathLt(p, q) == MapLt(p.distance_map, q.distance_map)

\* CellPath.__le__
PathLe(p, q) == MapLe(p.distance_map, q.distance_map)

\* p > q on CellPaths: the reflected q.__lt__(p).
PathGt(p, q) == PathLt(q, p)

(***************************************************************************)
(* heapq on a sequence (index i of the Python list is index i + 1 here).   *)
(***************************************************************************)
RECURSIVE SiftDown(_, _, _, _)
\* heapq._siftdown(heap, startpos, pos) with newitem carried along.
SiftDown(heap, startpos, pos, newitem) ==
    IF pos > startpos
    THEN LET parentpos == (pos - 1) \div 2
             parent == heap[parentpos + 1]
         IN  IF PathLt(newitem, parent)
             THEN SiftDown([heap EXCEPT ![pos + 1] = parent], startpos, parentpos, newitem)
             ELSE [heap EXCEPT ![pos + 1] = newitem]
    ELSE [heap EXCEPT ![pos + 1] = newitem]

RECURSIVE SiftUpLoop(_, _, _, _)
\* The while loop of heapq._siftup: bubble the smaller child up to a leaf.
SiftUpLoop(heap, startpos, pos, newitem) ==
    LET endpos == Len(heap)
        leftpos == (2 * pos) + 1
        rightpos == leftpos + 1
    IN  IF leftpos < endpos
        THEN LET childpos ==
                     IF rightpos < endpos /\ ~PathLt(heap[leftpos + 1], heap[rightpos + 1])
                     THEN rightpos
                     ELSE leftpos
             IN  SiftUpLoop([heap EXCEPT ![pos + 1] = heap[childpos + 1]],
                            startpos, childpos, newitem)
        ELSE SiftDown([heap EXCEPT ![pos + 1] = newitem], startpos, pos, newitem)

\* heapq.heappush(heap, item)
HeapPush(heap, item) == SiftDown(Append(heap, item), 0, Len(heap), item)

\* The item heapq.heappop(heap) returns.
HeapPopItem(heap) == heap[1]

\* The heap heapq.heappop(heap) leaves behind.
HeapPopRest(heap) ==
    LET lastelt == heap[Len(heap)]
        rest == SubSeq(heap, 1, Len(heap) - 1)
    IN  IF rest = <<>> THEN rest ELSE SiftUpLoop(rest, 0, 0, lastelt)

(***************************************************************************)
(* Maze                                                                    *)
(***************************************************************************)
Coords(h, w) == (0 .. (h - 1)) \X (0 .. (w - 1))

\* The Maze that Maze.from_text builds from a grid of h rows and w columns
\* with 'S' at s, 'E' at e, '#' at the cells of walls and '.' elsewhere.
MkMaze(h, w, s, e, walls) ==
    [height |-> h,
     width  |-> w,
     tile   |-> [c \in Coords(h, w) |->
                    IF c = s THEN "S"
                    ELSE IF c = e THEN "E"
                    ELSE IF c \in walls THEN "#"
                    ELSE "."],
     start  |-> s,
     end    |-> e]

\* The grid dimensions (height, width) of at most MaxCells cells.
SmallDims == { d \in (1 .. MaxCells) \X (1 .. MaxCells) : d[1] * d[2] <= MaxCells }

\* The 7x7 maze of the scenario:
\*   #######
\*   #S....#
\*   #.###.#
\*   #.#...#
\*   #.#.#.#
\*   #...#E#
\*   #######
ScenarioOpen ==
    { <<1, 2>>, <<1, 3>>, <<1, 4>>, <<1, 5>>,
      <<2, 1>>, <<2, 5>>,
      <<3, 1>>, <<3, 3>>, <<3, 4>>, <<3, 5>>,
      <<4, 1>>, <<4, 3>>, <<4, 5>>,
      <<5, 1>>, <<5, 2>>, <<5, 3>> }

ScenarioMaze ==
    MkMaze(7, 7, <<1, 1>>, <<5, 5>>, Coords(7, 7) \ ScenarioOpen)

\* The same grid with 'E' walled off on all four sides.
ScenarioWalledOff ==
    MkMaze(7, 7, <<1, 1>>, <<5, 5>>, Coords(7, 7) \ (ScenarioOpen \ {<<4, 5>>}))

(***************************************************************************)
(* Maze.from_text                                                          *)
(***************************************************************************)
\* Length of the longest input text that is enumerated.
MaxTextLen == 6

\* The characters of the enumerated input texts: the tiles '#', '.', 'S',
\* 'E' and the line break.
TextChars == {"#", ".", "S", "E", "\n"}

RECURSIVE SplitFrom(_, _, _, _)
\* str.splitlines from character i on: `line` is the line being read and
\* `lines` the lines already ended by a line break.
SplitFrom(t, i, line, lines) ==
    IF i > Len(t)
    THEN IF line = <<>> THEN lines ELSE Append(lines, line)
    ELSE IF t[i] = "\n"
    THEN SplitFrom(t, i + 1, <<>>, Append(lines, line))
    ELSE SplitFrom(t, i + 1, Append(line, t[i]), lines)

\* text.splitlines(): a final line break opens no further line.
SplitLines(t) == SplitFrom(t, 1, <<>>, <<>>)

\* The (y, x) of the cells the two loops of from_text create.
TextCells(lines) ==
    UNION { { <<y, x>> : x \in 0 .. (Len(lines[y + 1]) - 1) } :
            y \in 0 .. (Len(lines) - 1) }

\* The cells whose character is ch.
Marked(lines, ch) ==
    { c \in TextCells(lines) : lines[c[1] + 1][c[2] + 1] = ch }

\* A local variable that was never assigned.
Unbound == <<-1, -1>>

\* start_cell / end_cell after the loops: every cell with the marker
\* overwrites the local, so the last one in reading order stays.
LastMarked(lines, ch) ==
    LET cells == Marked(lines, ch)
    IN  IF cells = {} THEN Unbound
        ELSE CHOOSE c \in cells :
               \A d \in cells : d[1] < c[1] \/ (d[1] = c[1] /\ d[2] <= c[2])

\* A test that fails only when both locals are missing.
FromTextRaisesWhenBothMissing(lines) ==
    Marked(lines, "S") = {} /\ Marked(lines, "E") = {}

\* `if not start_cell or not end_cell` reads a local that no iteration
\* assigned: UnboundLocalError.  A Cell is always truthy, so the ValueError
\* of the next line is never raised.
FromTextRaises(lines) ==
    Marked(lines, "S") = {} \/ Marked(lines, "E") = {}

\* cls(maze, start_cell, end_cell) with __attrs_post_init__: the width is the
\* length of the first row, the height the number of rows.
FromTextMaze(lines) ==
    [height |-> Len(lines),
     width  |-> Len(lines[1]),
     tile   |-> [c \in TextCells(lines) |-> lines[c[1] + 1][c[2] + 1]],
     start  |-> LastMarked(lines, "S"),
     end    |-> LastMarked(lines, "E")]

RECURSIVE RowsText(_, _)
\* The rows y .. height - 1 of a rectangular maze as text, one line each.
RowsText(m, y) ==
    LET row == [x \in 1 .. m.width |-> m.tile[<<y, x - 1>>]]
    IN  IF y = m.height - 1 THEN row
        ELSE row \o <<"\n">> \o RowsText(m, y + 1)

\* The input text from_text built the rectangular maze m from.
MazeText(m) == RowsText(m, 0)

\* No Maze has been constructed.
NoMaze ==
    [height |-> 0, width |-> 0, tile |-> <<>>, start |-> Unbound,
     end |-> Unbound]

(***************************************************************************)
(* Maze methods                                                            *)
(***************************************************************************)
\* Maze.is_within_bounds
IsWithinBounds(m, y, x) == 0 <= y /\ y < m.height /\ 0 <= x /\ x < m.width

\* Maze.get_adjacent_cells, one direction: the cell it yields, as a set of
\* zero or one coordinates.
AdjacentCell(m, position, direction) ==
    LET y == position[1] + DirectionValue(direction)[1]
        x == position[2] + DirectionValue(direction)[2]
    IN  IF ~IsWithinBounds(m, y, x) THEN {}
        ELSE IF <<y, x>> \notin DOMAIN m.tile THEN {}
        ELSE IF m.tile[<<y, x>>] # "#" THEN {<<y, x>>}
        ELSE {}

\* self.maze[y][x] raises IndexError: (y, x) passes is_within_bounds, which
\* takes the width from the first row, and row y is shorter.
AdjacentRaises(m, position, direction) ==
    LET y == position[1] + DirectionValue(direction)[1]
        x == position[2] + DirectionValue(direction)[2]
    IN  IsWithinBounds(m, y, x) /\ <<y, x>> \notin DOMAIN m.tile

\* A seed that leaves the visited-set at its default, the empty set.
StartPathUnvisited(m) ==
    CellPath(m.start, {}, FromDirection("EAST", Distance(0, 0)))

\* The start path that find_optimal_paths seeds the queue with.
StartPath(m) ==
    CellPath(m.start, {m.start}, FromDirection("EAST", Distance(0, 0)))

\* best_path = CellPath(self.end): no visited cell, default distance map.
InitialBestPath(m) == CellPath(m.end, {}, DistanceMapDefault)

\* The loop body with the pruning test widened to every candidate that is
\* not strictly better than the record in all four directions.
ExploreMovePrunesTies(m, best, current_path, direction, st) ==
    LET adj == AdjacentCell(m, current_path.position, direction)
    IN  IF st.raised THEN st
        ELSE IF AdjacentRaises(m, current_path.position, direction)
        THEN [st EXCEPT !.raised = TRUE]
        ELSE IF adj = {} THEN st
        ELSE
        LET cell == CHOOSE c \in adj : TRUE
            next_distance ==
                FromDirection(direction,
                              AddSteps(current_path.distance_map[direction], 1))
            updated ==
                IF MapLt(next_distance, st.cells[cell])
                THEN [st.cells EXCEPT ![cell] = next_distance]
                ELSE st.cells
            new_path ==
                CellPath(cell, current_path.visited \cup {cell}, next_distance)
        IN  IF cell \in current_path.visited THEN st
            ELSE IF ~MapLt(next_distance, st.cells[cell]) THEN st
            ELSE [cells |-> updated,
                  queue |-> IF PathLe(new_path, best)
                            THEN HeapPush(st.queue, new_path)
                            ELSE st.queue,
                  raised |-> FALSE]

\* The loop body with the record of the cell replaced by every candidate
\* that is not pruned.
ExploreMoveAlwaysRecords(m, best, current_path, direction, st) ==
    LET adj == AdjacentCell(m, current_path.position, direction)
    IN  IF st.raised THEN st
        ELSE IF AdjacentRaises(m, current_path.position, direction)
        THEN [st EXCEPT !.raised = TRUE]
        ELSE IF adj = {} THEN st
        ELSE
        LET cell == CHOOSE c \in adj : TRUE
            next_distance ==
                FromDirection(direction,
                              AddSteps(current_path.distance_map[direction], 1))
            updated ==
                [st.cells EXCEPT ![cell] = next_distance]
            new_path ==
                CellPath(cell, current_path.visited \cup {cell}, next_distance)
        IN  IF cell \in current_path.visited THEN st
            ELSE IF MapGt(next_distance, st.cells[cell]) THEN st
            ELSE [cells |-> updated,
                  queue |-> IF PathLe(new_path, best)
                            THEN HeapPush(st.queue, new_path)
                            ELSE st.queue,
                  raised |-> FALSE]

\* The loop body with the new path given the visited-set of the expanded
\* path, the entered cell left out.
ExploreMoveForgetsCell(m, best, current_path, direction, st) ==
    LET adj == AdjacentCell(m, current_path.position, direction)
    IN  IF st.raised THEN st
        ELSE IF AdjacentRaises(m, current_path.position, direction)
        THEN [st EXCEPT !.raised = TRUE]
        ELSE IF adj = {} THEN st
        ELSE
        LET cell == CHOOSE c \in adj : TRUE
            next_distance ==
                FromDirection(direction,
                              AddSteps(current_path.distance_map[direction], 1))
            updated ==
                IF MapLt(next_distance, st.cells[cell])
                THEN [st.cells EXCEPT ![cell] = next_distance]
                ELSE st.cells
            new_path ==
                CellPath(cell, current_path.visited, next_distance)
        IN  IF cell \in current_path.visited THEN st
            ELSE IF MapGt(next_distance, st.cells[cell]) THEN st
            ELSE [cells |-> updated,
                  queue |-> IF PathLe(new_path, best)
                            THEN HeapPush(st.queue, new_path)
                            ELSE st.queue,
                  raised |-> FALSE]

\* One pass of the body of the for loop over get_adjacent_cells, for the
\* neighbour in `direction`; st is [cells, queue, raised], the cell distance
\* maps and the path queue so far and whether the loop was left by an
\* IndexError.
ExploreMove(m, best, current_path, direction, st) ==
    LET adj == AdjacentCell(m, current_path.position, direction)
    IN  IF st.raised THEN st
        ELSE IF AdjacentRaises(m, current_path.position, direction)
        THEN [st EXCEPT !.raised = TRUE]
        ELSE IF adj = {} THEN st
        ELSE
        LET cell == CHOOSE c \in adj : TRUE
            next_distance ==
                FromDirection(direction,
                              AddSteps(current_path.distance_map[direction], 1))
            updated ==
                IF MapLt(next_distance, st.cells[cell])
                THEN [st.cells EXCEPT ![cell] = next_distance]
                ELSE st.cells
            new_path ==
                CellPath(cell, current_path.visited \cup {cell}, next_distance)
        IN  IF cell \in current_path.visited THEN st
            ELSE IF MapGt(next_distance, st.cells[cell]) THEN st
            ELSE [cells |-> updated,
                  queue |-> IF PathLe(new_path, best)
                            THEN HeapPush(st.queue, new_path)
                            ELSE st.queue,
                  raised |-> FALSE]

RECURSIVE ExploreMoves(_, _, _, _, _)
\* The for loop over get_adjacent_cells, in the order `order` of directions.
ExploreMoves(m, best, current_path, order, st) ==
    IF order = <<>> THEN st
    ELSE ExploreMoves(m, best, current_path, Tail(order),
                      ExploreMove(m, best, current_path, Head(order), st))

(***************************************************************************)
(* The state machine.                                                      *)
(***************************************************************************)
NoOutcome == [kind |-> "none", part1 |-> 0, part2 |-> 0]

\* The state after Maze.from_text: every cell has a default distance map and
\* best_paths is the empty list.
InitOn(m) ==
    /\ text = MazeText(m)
    /\ disk = NoDisk
    /\ lab = NoLab
    /\ compared = NoCompared
    /\ warehouse = NoWarehouse
    /\ manager = NoManager
    /\ maze = m
    /\ cell_map = [c \in DOMAIN m.tile |-> DistanceMapDefault]
    /\ path_queue = <<>>
    /\ best_path = InitialBestPath(m)
    /\ best_paths = <<>>
    /\ pc = "start"
    /\ outcome = NoOutcome
    /\ prev = NoOutcome

\* The solver run on every rectangular maze of at most n cells that has
\* exactly one 'S' and one 'E'.
InitSmall(n) ==
    \E d \in SmallDims :
      \E s \in Coords(d[1], d[2]) :
        \E e \in Coords(d[1], d[2]) \ {s} :
          \E walls \in SUBSET (Coords(d[1], d[2]) \ {s, e}) :
            /\ d[1] * d[2] <= n
            /\ InitOn(MkMaze(d[1], d[2], s, e, walls))

\* The small mazes and the two 7x7 scenario mazes.
Init ==
    \/ InitSmall(MaxCells)
    \/ InitOn(ScenarioMaze)
    \/ InitOn(ScenarioWalledOff)

\* find_optimal_paths up to the while loop: seed the queue.
Seed ==
    /\ pc = "start"
    /\ path_queue' = HeapPush(<<>>, StartPath(maze))
    /\ best_path' = InitialBestPath(maze)
    /\ pc' = "loop"
    /\ UNCHANGED <<other_days, text, maze, cell_map, best_paths, outcome, prev>>

\* The first branch with the popped path left on the queue.
DiscardKeepsPath(current_path, rest) ==
    /\ PathGt(current_path, best_path)
    /\ path_queue' = path_queue
    /\ UNCHANGED <<other_days, text, maze, cell_map, best_path, best_paths, pc, outcome, prev>>

\* Loop body, first branch: the popped path is worse than the best path and
\* is dropped; `rest` is the queue the pop leaves.
Discard(current_path, rest) ==
    /\ PathGt(current_path, best_path)
    /\ path_queue' = rest
    /\ UNCHANGED <<other_days, text, maze, cell_map, best_path, best_paths, pc, outcome, prev>>

\* The second branch with <= in place of <: an arrival that ties the best
\* replaces the collected visited-sets instead of joining them.
CompleteResetsOnTie(current_path, rest) ==
    LET current == MapDistance(current_path.distance_map)
        best == MapDistance(best_path.distance_map)
    IN  /\ ~PathGt(current_path, best_path)
        /\ current_path.position = maze.end
        /\ path_queue' = rest
        /\ IF DistanceLe(current, best)
           THEN /\ best_path' = current_path
                /\ best_paths' = <<current_path.visited>>
           ELSE UNCHANGED <<best_path, best_paths>>
        /\ UNCHANGED <<other_days, text, maze, cell_map, pc, outcome, prev>>

\* The second branch without the reset: a strictly better arrival is
\* appended to the visited-sets collected for worse arrivals.
CompleteAppendsOnBetter(current_path, rest) ==
    LET current == MapDistance(current_path.distance_map)
        best == MapDistance(best_path.distance_map)
    IN  /\ ~PathGt(current_path, best_path)
        /\ current_path.position = maze.end
        /\ path_queue' = rest
        /\ IF DistanceLt(current, best)
           THEN /\ best_path' = current_path
                /\ best_paths' = Append(best_paths, current_path.visited)
           ELSE IF DistanceEq(current, best)
           THEN /\ best_path' = best_path
                /\ best_paths' = Append(best_paths, current_path.visited)
           ELSE UNCHANGED <<best_path, best_paths>>
        /\ UNCHANGED <<other_days, text, maze, cell_map, pc, outcome, prev>>

\* Loop body, second branch: the popped path stands on the end cell.
Complete(current_path, rest) ==
    LET current == MapDistance(current_path.distance_map)
        best == MapDistance(best_path.distance_map)
    IN  /\ ~PathGt(current_path, best_path)
        /\ current_path.position = maze.end
        /\ path_queue' = rest
        /\ IF DistanceLt(current, best)
           THEN /\ best_path' = current_path
                /\ best_paths' = <<current_path.visited>>
           ELSE IF DistanceEq(current, best)
           THEN /\ best_path' = best_path
                /\ best_paths' = Append(best_paths, current_path.visited)
           ELSE UNCHANGED <<best_path, best_paths>>
        /\ UNCHANGED <<other_days, text, maze, cell_map, pc, outcome, prev>>

\* Loop body, third branch: the moves out of the popped path are explored,
\* the neighbours taken in the order `order`.
Explore(current_path, rest, order) ==
    LET st == ExploreMoves(maze, best_path, current_path, order,
                           [cells |-> cell_map, queue |-> rest,
                            raised |-> FALSE])
    IN  /\ ~PathGt(current_path, best_path)
        /\ current_path.position # maze.end
        /\ cell_map' = st.cells
        /\ path_queue' = st.queue
        /\ IF st.raised
           THEN /\ pc' = "done"
                /\ outcome' = [kind |-> "IndexError", part1 |-> 0, part2 |-> 0]
           ELSE UNCHANGED <<pc, outcome>>
        /\ UNCHANGED <<other_days, text, maze, best_path, best_paths, prev>>

\* A loop iteration that drops the path heappop returns.
PopDiscard ==
    /\ pc = "loop"
    /\ path_queue # <<>>
    /\ Discard(HeapPopItem(path_queue), HeapPopRest(path_queue))

\* A loop iteration whose popped path is complete.
PopComplete ==
    /\ pc = "loop"
    /\ path_queue # <<>>
    /\ Complete(HeapPopItem(path_queue), HeapPopRest(path_queue))

\* A loop iteration that explores the moves out of the popped path.
PopExplore ==
    /\ pc = "loop"
    /\ path_queue # <<>>
    /\ Explore(HeapPopItem(path_queue), HeapPopRest(path_queue), DirectionOrder)

\* The while loop ends: the queue is empty and find_optimal_paths returns.
Return ==
    /\ pc = "loop"
    /\ path_queue = <<>>
    /\ pc' = "returned"
    /\ UNCHANGED <<other_days, text, maze, cell_map, path_queue, best_path, best_paths, outcome, prev>>

\* set.union(*best_paths)
RECURSIVE UnionAll(_)
UnionAll(paths) ==
    IF paths = <<>> THEN {} ELSE Head(paths) \cup UnionAll(Tail(paths))

\* What main does after find_optimal_paths: set.union(*maze.best_paths)
\* raises TypeError on an empty list, otherwise the two answers are printed.
MainOutcome(m, cells, paths) ==
    IF paths = <<>>
    THEN [kind |-> "TypeError", part1 |-> 0, part2 |-> 0]
    ELSE [kind  |-> "printed",
          part1 |-> Score(MapDistance(cells[m.end])),
          part2 |-> Cardinality(UnionAll(paths))]

\* The rest of main.
Report ==
    /\ pc = "returned"
    /\ outcome' = MainOutcome(maze, cell_map, best_paths)
    /\ pc' = "done"
    /\ UNCHANGED <<other_days, text, maze, cell_map, path_queue, best_path, best_paths, prev>>

Next == Seed \/ PopDiscard \/ PopComplete \/ PopExplore \/ Return \/ Report

Spec == Init /\ [][Next]_vars

\* The largest maze of the runs checked for termination, in cells.
MaxLiveCells == 5

\* main runs on its own thread without waiting for anything: a step that
\* can be taken is eventually taken.
SpecLive == InitSmall(MaxLiveCells) /\ [][Next]_vars /\ WF_vars(Next)

(***************************************************************************)
(* main from the input text on: Maze.from_text, then the search.           *)
(***************************************************************************)
\* main has read an input text of at most MaxTextLen characters.
InitText ==
    \E n \in 0 .. MaxTextLen :
      \E t \in [1 .. n -> TextChars] :
        /\ text = t
        /\ disk = NoDisk
        /\ lab = NoLab
        /\ compared = NoCompared
        /\ warehouse = NoWarehouse
        /\ manager = NoManager
        /\ maze = NoMaze
        /\ cell_map = <<>>
        /\ path_queue = <<>>
        /\ best_path = InitialBestPath(NoMaze)
        /\ best_paths = <<>>
        /\ pc = "parse"
        /\ outcome = NoOutcome
        /\ prev = NoOutcome

\* Maze.from_text(text): an uncaught UnboundLocalError ends main, otherwise
\* the Maze is constructed and find_optimal_paths is about to be called.
FromText ==
    /\ pc = "parse"
    /\ LET lines == SplitLines(text)
           m == FromTextMaze(lines)
       IN  IF FromTextRaises(lines)
           THEN /\ pc' = "done"
                /\ outcome' = [kind |-> "UnboundLocalError",
                               part1 |-> 0, part2 |-> 0]
                /\ UNCHANGED <<maze, cell_map, best_path>>
           ELSE /\ maze' = m
                /\ cell_map' = [c \in DOMAIN m.tile |-> DistanceMapDefault]
                /\ best_path' = InitialBestPath(m)
                /\ pc' = "start"
                /\ UNCHANGED outcome
    /\ UNCHANGED <<other_days, text, path_queue, best_paths, prev>>

NextText == FromText \/ Next

SpecText == InitText /\ [][NextText]_vars

(***************************************************************************)
(* A second run of main on a fresh Maze, remembering the first outcome.    *)
(***************************************************************************)
\* Maze.from_text on grid m and a new find_optimal_paths, after a first run
\* of main has finished with `outcome`.
RunAgainOn(m) ==
    /\ pc = "done"
    /\ prev.kind = "none"
    /\ prev' = outcome
    /\ text' = MazeText(m)
    /\ UNCHANGED other_days
    /\ maze' = m
    /\ cell_map' = [c \in DOMAIN m.tile |-> DistanceMapDefault]
    /\ path_queue' = <<>>
    /\ best_path' = InitialBestPath(m)
    /\ best_paths' = <<>>
    /\ outcome' = NoOutcome
    /\ pc' = "start"

\* main run again on the same input text.
Rerun == RunAgainOn(maze)

\* main run again on the input with one open cell turned into a wall.
RerunWithWall ==
    \E c \in DOMAIN maze.tile :
        /\ maze.tile[c] = "."
        /\ RunAgainOn([maze EXCEPT !.tile[c] = "#"])

InitPair ==
    /\ MaxPairCells <= MaxCells
    /\ InitSmall(MaxPairCells)

NextWall == Next \/ RerunWithWall

\* The solver run on a maze and then on the maze with one more wall.
SpecWall == InitPair /\ [][NextWall]_vars

(***************************************************************************)
(* The search with any admissible pop order: any queued path that no other *)
(* queued path is smaller than (under CellPath.__lt__) may be popped, and  *)
(* the neighbours may be explored in any order of the four directions.     *)
(***************************************************************************)
Admissible(queue) ==
    { i \in 1 .. Len(queue) : \A j \in 1 .. Len(queue) : ~PathLt(queue[j], queue[i]) }

RemoveAt(queue, i) == SubSeq(queue, 1, i - 1) \o SubSeq(queue, i + 1, Len(queue))

DirectionOrders ==
    { o \in [1 .. 4 -> Directions] : \A i \in 1 .. 4 : \A j \in 1 .. 4 : i # j => o[i] # o[j] }

AnyDiscard ==
    /\ pc = "loop"
    /\ \E i \in Admissible(path_queue) :
           Discard(path_queue[i], RemoveAt(path_queue, i))

AnyComplete ==
    /\ pc = "loop"
    /\ \E i \in Admissible(path_queue) :
           Complete(path_queue[i], RemoveAt(path_queue, i))

AnyExplore ==
    /\ pc = "loop"
    /\ \E i \in Admissible(path_queue) :
           \E order \in DirectionOrders :
               Explore(path_queue[i], RemoveAt(path_queue, i), order)

NextAnyOrder ==
    Seed \/ AnyDiscard \/ AnyComplete \/ AnyExplore \/ Return \/ Report \/ Rerun

\* Two runs on the same maze, each with any admissible pop order.
SpecAnyOrder == InitPair /\ [][NextAnyOrder]_vars

(***************************************************************************)
(* The search on a maze with two routes of equal score that differ in      *)
(* turns and steps.  The loop iterations between two arrivals at the end   *)
(* cell are taken as one step.                                             *)
(***************************************************************************)
\* The length of corridor that costs as much as half a turn.
CorridorLength == TurnWeight \div 2

\* With n = CorridorLength, the maze of three rows
\*   row 0:  n + 1 times '.', then 'E'
\*   row 1:  '.', then n times '#', then '.'
\*   row 2:  n times '.', then 'S', then '.'
\* One route leaves 'S' away from the seed's facing and turns once more: 3
\* turns and 3 steps.  The other follows the seed's facing around the wall:
\* 2 turns and 2 * n + 3 steps.
TiedCorridorMaze ==
    MkMaze(3, CorridorLength + 2,
           <<2, CorridorLength>>, <<0, CorridorLength + 1>>,
           { <<1, x>> : x \in 1 .. CorridorLength })

\* The while loop goes on and the path it is about to pop is not on the end
\* cell; st is [cells, queue, raised] as in ExploreMove.
Pending(m, st) ==
    /\ ~st.raised
    /\ st.queue # <<>>
    /\ HeapPopItem(st.queue).position # m.end

\* One iteration of the while loop for a popped path that is not on the end
\* cell: it is dropped or its moves are explored; best_path does not change.
Iteration(m, best, st) ==
    IF ~Pending(m, st) THEN st
    ELSE LET current_path == HeapPopItem(st.queue)
             rest == HeapPopRest(st.queue)
         IN  IF PathGt(current_path, best)
             THEN [st EXCEPT !.queue = rest]
             ELSE ExploreMoves(m, best, current_path, DirectionOrder,
                               [st EXCEPT !.queue = rest])

RECURSIVE Iterations(_, _, _, _)
\* k iterations, by halves.
Iterations(m, best, st, k) ==
    IF k = 0 \/ ~Pending(m, st) THEN st
    ELSE IF k = 1 THEN Iteration(m, best, st)
    ELSE Iterations(m, best, Iterations(m, best, st, k \div 2), k - (k \div 2))

RECURSIVE UntilArrival(_, _, _, _)
\* The iterations up to the next pop of a path that is on the end cell, the
\* end of the loop or an IndexError.
UntilArrival(m, best, st, k) ==
    LET next == Iterations(m, best, st, k)
    IN  IF Pending(m, next) THEN UntilArrival(m, best, next, 2 * k) ELSE next

\* The loop runs up to the next arrival at the end cell.
ExploreToArrival ==
    LET st0 == [cells |-> cell_map, queue |-> path_queue, raised |-> FALSE]
        st == UntilArrival(maze, best_path, st0, 1)
    IN  /\ pc = "loop"
        /\ Pending(maze, st0)
        /\ cell_map' = st.cells
        /\ path_queue' = st.queue
        /\ IF st.raised
           THEN /\ pc' = "done"
                /\ outcome' = [kind |-> "IndexError", part1 |-> 0, part2 |-> 0]
           ELSE UNCHANGED <<pc, outcome>>
        /\ UNCHANGED <<other_days, text, maze, best_path, best_paths, prev>>

\* The path about to be popped is on the end cell.
AtArrival ==
    /\ pc = "loop"
    /\ path_queue # <<>>
    /\ HeapPopItem(path_queue).position = maze.end

\* A loop iteration that drops a path standing on the end cell.
ArriveDiscard == AtArrival /\ PopDiscard

\* A loop iteration that takes a path standing on the end cell as complete.
ArriveComplete == AtArrival /\ PopComplete

\* The tied corridor maze and the mazes of at most MaxPairCells cells.
InitLong ==
    \/ InitOn(TiedCorridorMaze)
    \/ InitSmall(MaxPairCells)

NextLong ==
    Seed \/ ExploreToArrival \/ ArriveDiscard \/ ArriveComplete \/ Return \/ Report

SpecLong == InitLong /\ [][NextLong]_vars

(***************************************************************************)
(* Reference semantics of the puzzle, independent of the search: every     *)
(* start-to-end path that enters no cell twice, with its turns and steps.  *)
(* Headings are (dy, dx) vectors.                                          *)
(***************************************************************************)
Headings == { <<0, 1>>, <<0, -1>>, <<1, 0>>, <<-1, 0>> }

\* Number of 90-degree rotations between two headings.
Rotations(u, v) ==
    IF u = v THEN 0
    ELSE IF u[1] + v[1] = 0 /\ u[2] + v[2] = 0 THEN 2
    ELSE 1

\* The routes one move longer than the unfinished routes g.open (sequences
\* of cells ending at the current position, reached facing `facing` after
\* `turns` turns); the ones that reach the end cell join g.done.
ExtendRoutes(m, g) ==
    LET grown ==
            UNION { LET pos == r.trail[Len(r.trail)]
                        seen == { r.trail[i] : i \in 1 .. Len(r.trail) }
                    IN  { [trail  |-> Append(r.trail,
                                             <<pos[1] + v[1], pos[2] + v[2]>>),
                           facing |-> v,
                           turns  |-> r.turns + Rotations(r.facing, v)]
                          : v \in { u \in Headings :
                                      LET nxt == <<pos[1] + u[1], pos[2] + u[2]>>
                                      IN  /\ nxt \in DOMAIN m.tile
                                          /\ m.tile[nxt] # "#"
                                          /\ nxt \notin seen } }
                  : r \in g.open }
        arrived == { r \in grown : r.trail[Len(r.trail)] = m.end }
    IN  [open |-> grown \ arrived,
         done |-> g.done \cup { [trail |-> r.trail, turns |-> r.turns,
                                 steps |-> Len(r.trail) - 1] : r \in arrived }]

RECURSIVE ExtendTimes(_, _, _)
\* ExtendRoutes applied k times, by halves.
ExtendTimes(m, g, k) ==
    IF k = 0 \/ g.open = {} THEN g
    ELSE IF k = 1 THEN ExtendRoutes(m, g)
    ELSE ExtendTimes(m, ExtendTimes(m, g, k \div 2), k - (k \div 2))

RECURSIVE ExtendAll(_, _, _)
\* ExtendRoutes applied until no unfinished route is left.
ExtendAll(m, g, k) ==
    LET h == ExtendTimes(m, g, k)
    IN  IF h.open = {} THEN h.done ELSE ExtendAll(m, h, 2 * k)

\* All routes from Start to End when the walk begins facing `facing`.
Routes(m, facing) ==
    ExtendAll(m, [open |-> {[trail |-> <<m.start>>, facing |-> facing,
                             turns |-> 0]},
                  done |-> {}], 1)

RouteScore(r) == (r.turns * 1000) + r.steps

RouteCells(r) == { r.trail[i] : i \in 1 .. Len(r.trail) }

\* The routes of least score among rs.
Cheapest(rs) == { r \in rs : \A q \in rs : RouteScore(r) <= RouteScore(q) }

\* The heading the solver's seed faces: the vector of Direction.EAST.
SeedHeading == DirectionValue("EAST")

\* The heading toward increasing column in the same row.
TrueEast == <<0, 1>>

Finished == pc = "done"

(***************************************************************************)
(* C1                                                                      *)
(***************************************************************************)
\* C1: whenever End is reachable, the part-1 value main prints equals the
\* least turns*1000+steps over all start-to-end routes walked from Start in
\* the solver's seed facing.
ReportedScoreIsMinimum ==
    Finished =>
        LET rs == Routes(maze, SeedHeading)
        IN  rs # {} =>
                /\ outcome.kind = "printed"
                /\ \A r \in Cheapest(rs) : outcome.part1 = RouteScore(r)

(***************************************************************************)
(* C2                                                                      *)
(***************************************************************************)
\* The mazes in which the C2 case shows: at least two cheapest routes that
\* differ in their cells, and an open cell that is on none of them.
TiedRoutesWitness ==
    /\ Finished
    /\ LET best == Cheapest(Routes(maze, SeedHeading))
           on == UNION { RouteCells(r) : r \in best }
       IN  /\ \E r \in best : \E q \in best : RouteCells(r) # RouteCells(q)
           /\ \E c \in DOMAIN maze.tile : maze.tile[c] = "." /\ c \notin on
           /\ outcome.part2 = Cardinality(on)

\* C2: whenever End is reachable, the part-2 value (the size of the union of
\* best_paths) is the number of cells on at least one cheapest route, and the
\* union holds exactly those cells.
OptimalCellsCounted ==
    Finished =>
        LET rs == Routes(maze, SeedHeading)
            on == UNION { RouteCells(r) : r \in Cheapest(rs) }
        IN  rs # {} =>
                /\ outcome.kind = "printed"
                /\ UnionAll(best_paths) = on
                /\ outcome.part2 = Cardinality(on)

(***************************************************************************)
(* C3                                                                      *)
(***************************************************************************)
\* C3: when End is not reachable the search ends with the queue empty and no
\* best path, and main ends in a distinct "no path" outcome: no exception is
\* raised and no score or cell count is printed.
UnreachableIsNoPathOutcome ==
    (Finished /\ Routes(maze, SeedHeading) = {}) =>
        /\ path_queue = <<>>
        /\ best_paths = <<>>
        /\ outcome.kind # "TypeError"
        /\ outcome.kind # "printed"

(***************************************************************************)
(* C4                                                                      *)
(***************************************************************************)
\* C4: two runs on the same maze report the same part-1 score and the same
\* part-2 cell count, whatever admissible pop order and direction order each
\* run takes.
SameAnswersOnEveryPopOrder ==
    (Finished /\ prev.kind # "none") =>
        /\ outcome.kind = prev.kind
        /\ outcome.part1 = prev.part1
        /\ outcome.part2 = prev.part2

(***************************************************************************)
(* C5                                                                      *)
(***************************************************************************)
\* C5: with End reachable before and after, the score reported for the maze
\* with one more wall is at least the score reported for the maze without it.
WallNeverLowersScore ==
    (Finished /\ prev.kind = "printed" /\ outcome.kind = "printed") =>
        outcome.part1 >= prev.part1

(***************************************************************************)
(* C6                                                                      *)
(***************************************************************************)
\* The routes with the fewest turns and, among those, the fewest steps.
FewestTurnsFirst(rs) ==
    { r \in rs : \A q \in rs :
          \/ r.turns < q.turns
          \/ (r.turns = q.turns /\ r.steps <= q.steps) }

\* C6: the reported score is that of a route with the fewest turns of all
\* routes and, among those, the fewest steps (so a route with one turn more
\* and one step fewer is never preferred), and the collected cells are the
\* cells of such routes.
FewestTurnsThenSteps ==
    Finished =>
        LET rs == Routes(maze, SeedHeading)
            best == FewestTurnsFirst(rs)
        IN  rs # {} =>
                /\ outcome.kind = "printed"
                /\ \A r \in best : outcome.part1 = (r.turns * 1000) + r.steps
                /\ UnionAll(best_paths) = UNION { RouteCells(r) : r \in best }

(***************************************************************************)
(* C7                                                                      *)
(***************************************************************************)
\* A maze with several routes of which exactly one is cheapest.
UniqueRouteWitness ==
    /\ Finished
    /\ LET rs == Routes(maze, SeedHeading)
       IN  /\ Cardinality(rs) >= 2
           /\ Cardinality(Cheapest(rs)) = 1
           /\ \A r \in Cheapest(rs) : r.steps >= 3 /\ outcome.part2 = r.steps + 1

\* C7: when exactly one route attains the minimum score, the part-2 count is
\* that route's number of steps plus one and every set in best_paths is the
\* cell set of that route.
UniqueRouteCount ==
    Finished =>
        LET best == Cheapest(Routes(maze, SeedHeading))
        IN  Cardinality(best) = 1 =>
                \A r \in best :
                    /\ outcome.kind = "printed"
                    /\ outcome.part2 = r.steps + 1
                    /\ best_paths # <<>>
                    /\ \A i \in 1 .. Len(best_paths) : best_paths[i] = RouteCells(r)

(***************************************************************************)
(* C8                                                                      *)
(***************************************************************************)
\* A finished run that collected at least two visited-sets.
StartEndWitness ==
    /\ Finished
    /\ Len(best_paths) >= 2
    /\ maze.start \in UnionAll(best_paths)
    /\ maze.end \in UnionAll(best_paths)

\* C8: every visited-set stored in best_paths contains Start and End, and
\* when End is reachable the union at termination is non-empty and contains
\* both.
StartEndOnEveryBestPath ==
    /\ \A i \in 1 .. Len(best_paths) :
           maze.start \in best_paths[i] /\ maze.end \in best_paths[i]
    /\ (Finished /\ Routes(maze, SeedHeading) # {}) =>
           /\ best_paths # <<>>
           /\ {maze.start, maze.end} \subseteq UnionAll(best_paths)

(***************************************************************************)
(* C9                                                                      *)
(***************************************************************************)
\* Row 1 from column 1 to column 5, then column 5 down to row 5.
ScenarioRoute ==
    { <<1, x>> : x \in 1 .. 5 } \cup { <<y, 5>> : y \in 1 .. 5 }

\* C9: on the 7x7 scenario maze there is one cheapest route when walking
\* from S facing East (increasing column), it has 1 turn and 8 moves, the
\* solver reports its score 1008, and the cell count is 9.
ScenarioAnswers ==
    (Finished /\ maze = ScenarioMaze) =>
        /\ \A r \in Cheapest(Routes(maze, TrueEast)) :
               /\ RouteCells(r) = ScenarioRoute
               /\ r.turns = 1
               /\ r.steps = 8
        /\ outcome.kind = "printed"
        /\ outcome.part1 = 1008
        /\ outcome.part2 = 9
        /\ best_paths = <<ScenarioRoute>>

(***************************************************************************)
(* C10                                                                     *)
(***************************************************************************)
\* C10: the seed path stands on Start with cost (0, 0) and visited-set
\* {start}, and a first move out of Start costs one step plus the rotations
\* from East, the heading toward increasing column: 0 turns into
\* (row, col+1), 1 turn into (row-1, col) or (row+1, col), 2 turns into
\* (row, col-1).
SeedFacesEast ==
    \A i \in 1 .. Len(path_queue) :
        LET p == path_queue[i]
            v == <<p.position[1] - maze.start[1], p.position[2] - maze.start[2]>>
        IN  /\ Cardinality(p.visited) = 1 =>
                /\ p.position = maze.start
                /\ p.visited = {maze.start}
                /\ MapDistance(p.distance_map) = Distance(0, 0)
            /\ Cardinality(p.visited) = 2 =>
                MapDistance(p.distance_map) = Distance(Rotations(TrueEast, v), 1)

(***************************************************************************)
(* Malformed input texts (SpecText).                                       *)
(***************************************************************************)
\* The text has been handed to Maze.from_text and the call is over.
Parsed == pc # "parse"

\* Maze.from_text raised: main ended with its error and no Maze exists, so
\* find_optimal_paths was never called.
ParseFailed ==
    /\ pc = "done"
    /\ outcome.kind = "UnboundLocalError"
    /\ maze = NoMaze
    /\ path_queue = <<>>
    /\ best_paths = <<>>

\* The number of cells of the text whose character is ch.
MarkerCount(ch) == Cardinality(Marked(SplitLines(text), ch))

\* The lines of the text do not all have the same length.
Ragged ==
    LET lines == SplitLines(text)
    IN  \E i, j \in 1 .. Len(lines) : Len(lines[i]) # Len(lines[j])

\* C11: when the input text has no 'S' or no 'E' (one marker alone, neither,
\* or the empty text), Maze.from_text ends with an error, no Maze is
\* produced and the search is never started.
MissingMarkerFails ==
    (Parsed /\ (MarkerCount("S") = 0 \/ MarkerCount("E") = 0)) => ParseFailed

\* C11 witness: a text with an 'S' and no 'E' has been parsed and failed.
MissingEndWitness ==
    /\ Parsed
    /\ MarkerCount("S") = 1
    /\ MarkerCount("E") = 0
    /\ ParseFailed

\* C12: when the input text has more than one 'S' or more than one 'E',
\* Maze.from_text ends with an error instead of taking one of the
\* duplicates as the start or end cell.
DuplicateMarkerFails ==
    (Parsed /\ (MarkerCount("S") > 1 \/ MarkerCount("E") > 1)) => ParseFailed

\* C13: when the rows of the input text do not all have the same length,
\* Maze.from_text ends with an error and returns no Maze, so the search
\* never runs on a grid whose width differs from the length of a row.
RaggedTextFails == (Parsed /\ Ragged) => ParseFailed

(***************************************************************************)
(* The order of the queue and the pruning tests (Spec).                    *)
(***************************************************************************)
\* path.distance_map.distance.score: the running score of a path.
PathScore(path) == Score(MapDistance(path.distance_map))

\* The number of positions of the queue that hold path.
Occurrences(queue, path) ==
    Cardinality({ i \in 1 .. Len(queue) : queue[i] = path })

\* The while loop is about to pop a path.
AboutToPop == pc = "loop" /\ path_queue # <<>>

\* The popped path passes both `continue` branches and is expanded.
AboutToExpand ==
    /\ AboutToPop
    /\ ~PathGt(HeapPopItem(path_queue), best_path)
    /\ HeapPopItem(path_queue).position # maze.end

\* C17: paths are popped in ascending running score: whenever a path is
\* about to be popped, it is the root of the heap and no path that stays in
\* the queue has a strictly smaller running score.
PoppedPathIsCheapest ==
    AboutToPop =>
        \A i \in 2 .. Len(path_queue) :
            PathScore(path_queue[1]) <= PathScore(path_queue[i])

\* C18: once a complete path is recorded, a popped path whose running score
\* is strictly greater than the recorded score is discarded: the step only
\* removes it from the queue, changes no cell's record and leaves
\* best_paths alone.
CostlierPathIsDiscarded ==
    [][ ( /\ AboutToPop
          /\ best_paths # <<>>
          /\ PathScore(HeapPopItem(path_queue)) > PathScore(best_path) )
        => ( /\ path_queue' = HeapPopRest(path_queue)
             /\ cell_map' = cell_map
             /\ best_paths' = best_paths ) ]_vars

\* C19: once a complete path is recorded, the expansion step pushes no path
\* whose running score is strictly greater than the recorded score.
NoCostlierPathIsPushed ==
    [][ (AboutToPop /\ best_paths # <<>>)
        => \A i \in 1 .. Len(path_queue') :
              Occurrences(path_queue', path_queue'[i])
                  > Occurrences(HeapPopRest(path_queue), path_queue'[i])
              => PathScore(path_queue'[i]) <= PathScore(best_path) ]_vars

\* C20: after the expansion of a path has processed the arrival at a
\* neighbouring cell facing d with cost c, the cost the cell records for d
\* is at most c.
ArrivalTightensRecord ==
    [][ AboutToExpand
        => \A d \in Directions :
             LET current_path == HeapPopItem(path_queue)
                 adj == AdjacentCell(maze, current_path.position, d)
             IN  \A cell \in adj \ current_path.visited :
                   Score(cell_map'[cell][d])
                       <= Score(AddSteps(current_path.distance_map[d], 1)) ]_vars

\* The candidate of the expansion of current_path into the neighbour `cell`
\* in direction d: its distance map, the path it would push, whether its
\* cost is strictly worse than the cost the cell records for d, whether the
\* step pushed it and whether the step left the cell's record alone.
Candidate(current_path, d, cell) ==
    LET next_distance ==
            FromDirection(d, AddSteps(current_path.distance_map[d], 1))
        new_path ==
            CellPath(cell, current_path.visited \cup {cell}, next_distance)
    IN  [new_path |-> new_path,
         worse    |-> Score(next_distance[d]) > Score(cell_map[cell][d]),
         pushed   |-> Occurrences(path_queue', new_path)
                          > Occurrences(HeapPopRest(path_queue), new_path),
         kept     |-> cell_map'[cell] = cell_map[cell]]

\* The candidates of the expansion step that is about to happen.
Candidates ==
    LET current_path == HeapPopItem(path_queue)
    IN  { Candidate(current_path, d, cell) :
            <<d, cell>> \in
                { dc \in Directions \X DOMAIN maze.tile :
                    /\ dc[2] \in AdjacentCell(maze, current_path.position, dc[1])
                    /\ dc[2] \notin current_path.visited } }

\* C21 as stated: in every expansion, the move into the neighbour in
\* direction d is pruned (no path is pushed and the neighbour's record is
\* not changed) exactly when its cost is strictly worse than the cost the
\* neighbour records for d.
PrunedIffStrictlyWorse ==
    [][ (AboutToExpand /\ pc' = pc)
        => \A c \in Candidates : (~c.pushed /\ c.kept) <=> c.worse ]_vars

\* C21, amended: a move whose cost is strictly worse than the cost the
\* neighbour records for d is pruned (no path pushed, no record changed); a
\* move that is not strictly worse, an equal cost included, has its path
\* pushed unless a complete path is recorded and the path fails the test
\* against best_path.
StrictlyWorseIsPruned ==
    [][ (AboutToExpand /\ pc' = pc)
        => \A c \in Candidates :
             /\ c.worse => (~c.pushed /\ c.kept)
             /\ ~c.worse => (c.pushed <=> PathLe(c.new_path, best_path))
             /\ best_paths = <<>> => PathLe(c.new_path, best_path) ]_vars

\* Two queued paths stand on the same cell with the same distance map: the
\* one pushed second matched the cost the cell recorded and was not pruned.
EqualCostPushedWitness ==
    \E i \in 1 .. Len(path_queue) :
      \E j \in 1 .. Len(path_queue) :
        /\ i # j
        /\ path_queue[i].position = path_queue[j].position
        /\ path_queue[i].distance_map = path_queue[j].distance_map
        /\ path_queue[i].distance_map = cell_map[path_queue[i].position]

\* C22: when the search returns with a complete path recorded, the least of
\* the four directional costs the End cell records (the score main prints
\* first) equals the score of best_path, the common score of the paths whose
\* visited-sets are in best_paths.
EndRecordIsBestScore ==
    (pc = "returned" /\ best_paths # <<>>)
        => Score(MapDistance(cell_map[maze.end])) = PathScore(best_path)

\* C23: an arrival at the end cell (a popped path standing on it) whose
\* score is strictly below the score of best_path replaces the collected
\* visited-sets by its own and becomes best_path; one whose score equals it
\* is added to the collection; a strictly worse one and every other loop
\* iteration leave the collection and best_path alone.  The score of
\* best_path (math.inf before the first arrival) is thus the lowest score
\* among the arrivals so far, and best_paths the visited-sets of exactly the
\* arrivals of that score.
ArrivalsKeepBestPaths ==
    [][ (pc = "loop" /\ path_queue # <<>>)
        => LET current_path == HeapPopItem(path_queue)
               current == PathScore(current_path)
               best == PathScore(best_path)
           IN  IF current_path.position # maze.end
               THEN best_paths' = best_paths /\ best_path' = best_path
               ELSE /\ current < best
                          => /\ best_paths' = <<current_path.visited>>
                             /\ best_path' = current_path
                    /\ current = best
                          => /\ best_paths' = Append(best_paths, current_path.visited)
                             /\ PathScore(best_path') = best
                    /\ current > best
                          => /\ best_paths' = best_paths
                             /\ best_path' = best_path ]_vars

\* C24: from one step of the search to the next, the cost recorded for a
\* cell and a direction never increases.
RecordsNeverIncrease ==
    [][ \A c \in DOMAIN cell_map :
          \A d \in Directions :
            Score(cell_map'[c][d]) <= Score(cell_map[c][d]) ]_vars

\* A queued path stands on a cell whose record is now strictly smaller than
\* the path's map in all four directions: the path was pushed when that was
\* not so, and the cell's record has been assigned again since.
RecordTightenedWitness ==
    \E i \in 1 .. Len(path_queue) :
        MapLt(cell_map[path_queue[i].position], path_queue[i].distance_map)

\* C25: find_optimal_paths terminates on every maze, and it returns only
\* with the queue empty: the loop is not left at the first arrival at the end
\* cell, and the pushes come to an end.
SearchTerminates ==
    /\ <>(pc = "returned")
    /\ [](pc = "returned" => path_queue = <<>>)

\* A complete path is recorded and the loop goes on with a path to pop: it
\* was not left at the first arrival at the end cell.
LoopGoesOnAfterArrivalWitness ==
    pc = "loop" /\ best_paths # <<>> /\ path_queue # <<>>

\* The direction a path faces: the one its distance map charges no turn
\* for, which holds the least of its four costs.
Facing(path) ==
    CHOOSE d \in Directions :
        path.distance_map[d] = MapDistance(path.distance_map)

\* C26: every path an expansion pushes stands on a neighbour of the expanded
\* path's cell that is inside the grid and no wall, faces the direction of
\* the move, and costs the expanded path's cost plus one step and plus 0, 1
\* or 2 turns: 0 when the move keeps the facing, 2 when it reverses it, 1
\* for a move to the left or right.
SuccessorCost ==
    [][ (AboutToExpand /\ pc' = pc)
        => LET current_path == HeapPopItem(path_queue)
               rest == HeapPopRest(path_queue)
               old == MapDistance(current_path.distance_map)
           IN  \A i \in 1 .. Len(path_queue') :
                 LET p == path_queue'[i]
                     v == <<p.position[1] - current_path.position[1],
                            p.position[2] - current_path.position[2]>>
                     r == Rotations(DirectionValue(Facing(current_path)), v)
                 IN  Occurrences(path_queue', p) > Occurrences(rest, p)
                     => /\ v \in Headings
                        /\ p.position \in DOMAIN maze.tile
                        /\ maze.tile[p.position] # "#"
                        /\ DirectionValue(Facing(p)) = v
                        /\ MapDistance(p.distance_map)
                               = Distance(old.turns + r, old.steps + 1) ]_vars

\* The queue holds the three kinds of successor of the seed: one step
\* ahead, one step after a quarter turn and one step after a reversal.
ThreeTurnCostsWitness ==
    \A r \in 0 .. 2 :
      \E i \in 1 .. Len(path_queue) :
          MapDistance(path_queue[i].distance_map) = Distance(r, 1)

\* C28: every path on the queue has a visited-set that contains the start
\* cell and the path's position, holds one cell per step plus one (no cell
\* is entered twice by the path) and holds no wall cell.
VisitedSetsAreLocal ==
    \A i \in 1 .. Len(path_queue) :
        LET p == path_queue[i]
        IN  /\ maze.start \in p.visited
            /\ p.position \in p.visited
            /\ Cardinality(p.visited) = MapDistance(p.distance_map).steps + 1
            /\ \A c \in p.visited : c \in DOMAIN maze.tile /\ maze.tile[c] # "#"

\* Two queued paths, the second standing on a cell the first has passed
\* through without having followed the first there: a cell of one path's
\* visited-set entered by a different path.
SharedCellWitness ==
    \E i \in 1 .. Len(path_queue) :
      \E j \in 1 .. Len(path_queue) :
        /\ path_queue[j].position \in path_queue[i].visited
        /\ path_queue[j].position # path_queue[i].position
        /\ ~(path_queue[j].visited \subseteq path_queue[i].visited)

(***************************************************************************)
(* Day 9: the Disk of 2024/Day9/solution_day9_aoc2024.py.                  *)
(***************************************************************************)
\* Length of the longest disk map string that is enumerated.
MaxMapLen == 5
\* Largest digit of an enumerated disk map string.
MaxDigit == 3

\* The decimal digits; int(char) is the position of char, less one.
DigitChars == <<"0", "1", "2", "3", "4", "5", "6", "7", "8", "9">>

\* int(char)
IntOf(char) == (CHOOSE i \in 1 .. Len(DigitChars) : DigitChars[i] = char) - 1

\* The value None of a block or of BlockGroup.data.
None == -1

\* [data] * value
Repeat(data, value) == [i \in 1 .. value |-> data]

\* list[::-1]
Reversed(list) == [i \in 1 .. Len(list) |-> list[Len(list) + 1 - i]]

\* DataBlock(idx // 2) if idx % 2 == 0 else None, idx counted from 0.
DataAt(idx) == IF idx % 2 = 0 THEN idx \div 2 ELSE None

RECURSIVE BlockMapFrom(_, _, _)
\* The loop of process_disk_blockmap from character idx (from 0) on, with
\* the blocks built so far.
BlockMapFrom(map_str, idx, blocks) ==
    IF idx >= Len(map_str) THEN blocks
    ELSE BlockMapFrom(map_str, idx + 1,
                      blocks \o Repeat(DataAt(idx), IntOf(map_str[idx + 1])))

\* Disk.process_disk_blockmap: self.disk_blocks
ProcessDiskBlockmap(map_str) == BlockMapFrom(map_str, 0, <<>>)

\* self.empty_block_ids: the indices (from 0) of the None blocks.  The list
\* is only used as a heap of distinct integers, so it is kept as a set and
\* heappop takes its minimum.
EmptyBlockIds(blocks) == { i \in 0 .. (Len(blocks) - 1) : blocks[i + 1] = None }

\* The integer heapq.heappop returns.
HeapMin(ids) == CHOOSE i \in ids : \A j \in ids : i <= j

\* Disk.process_disk_groupmap: one BlockGroup per character.
ProcessDiskGroupmap(map_str) ==
    [i \in 1 .. Len(map_str) |->
        [size |-> IntOf(map_str[i]), data |-> DataAt(i - 1)]]

\* Disk.calc_block_checksum
RECURSIVE BlockChecksum(_, _)
BlockChecksum(blocks, n) ==
    IF n = 0 THEN 0
    ELSE BlockChecksum(blocks, n - 1)
         + (IF blocks[n] = None THEN 0 ELSE (n - 1) * blocks[n])

RECURSIVE GroupBlocks(_)
\* The blocks a group list stands for, as print_groupmap lays them out.
GroupBlocks(groups) ==
    IF groups = <<>> THEN <<>>
    ELSE Repeat(Head(groups).data, Head(groups).size) \o GroupBlocks(Tail(groups))

\* Disk.calc_group_checksum
GroupChecksum(groups) ==
    BlockChecksum(GroupBlocks(groups), Len(GroupBlocks(groups)))

\* Disk.find_first_empty_space: the index (from 0) of the first group with
\* no data and at least `size` blocks, or None.
FindFirstEmptySpace(groups, size) ==
    LET fits == { i \in 1 .. Len(groups) :
                    groups[i].data = None /\ groups[i].size >= size }
    IN  IF fits = {} THEN None
        ELSE (CHOOSE i \in fits : \A j \in fits : i <= j) - 1

\* self.disk_groups.index(group): the first position (from 0) that holds a
\* group equal to `group` (attrs equality, field by field).
GroupIndex(groups, group) ==
    (CHOOSE i \in 1 .. Len(groups) :
        /\ groups[i] = group
        /\ \A j \in 1 .. (i - 1) : groups[j] # group) - 1

\* list.insert(idx, item), idx counted from 0.
Insert(list, idx, item) ==
    SubSeq(list, 1, idx) \o <<item>> \o SubSeq(list, idx + 1, Len(list))

RECURSIVE DataGroups(_)
\* [g for g in self.disk_groups if g.data]: a DataBlock is always truthy.
DataGroups(groups) ==
    IF groups = <<>> THEN <<>>
    ELSE IF Head(groups).data # None
    THEN <<Head(groups)>> \o DataGroups(Tail(groups))
    ELSE DataGroups(Tail(groups))

\* The Disk that Disk(map_str) constructs.
NewDisk(map_str) ==
    [pc              |-> "ready",
     map_str         |-> map_str,
     disk_blocks     |-> ProcessDiskBlockmap(map_str),
     empty_block_ids |-> EmptyBlockIds(ProcessDiskBlockmap(map_str)),
     disk_blocksize  |-> Len(ProcessDiskBlockmap(map_str)),
     disk_groups     |-> ProcessDiskGroupmap(map_str),
     reversed        |-> <<>>,
     idx             |-> 0,
     replace_count   |-> 0,
     pending         |-> <<>>,
     part1           |-> 0,
     part2           |-> 0]

\* Everything but the Disk.
not_disk ==
    <<maze, cell_map, path_queue, best_path, best_paths, pc, outcome, prev,
      text, lab, compared, warehouse, manager>>

\* The maze solver is not run.
NoMazeRun ==
    /\ text = <<>>
    /\ maze = NoMaze
    /\ cell_map = <<>>
    /\ path_queue = <<>>
    /\ best_path = InitialBestPath(NoMaze)
    /\ best_paths = <<>>
    /\ pc = "none"
    /\ outcome = NoOutcome
    /\ prev = NoOutcome

\* The disk map strings of at most MaxMapLen digits, none above MaxDigit.
InitDisk ==
    \E n \in 0 .. MaxMapLen :
      \E map_str \in [1 .. n -> { DigitChars[v + 1] : v \in 0 .. MaxDigit }] :
        /\ MaxDigit < Len(DigitChars)
        /\ disk = NewDisk(map_str)
        /\ lab = NoLab
        /\ compared = NoCompared
        /\ warehouse = NoWarehouse
        /\ manager = NoManager
        /\ NoMazeRun

\* compress_blocks up to its for loop: the counter, heapify, and the
\* reversed copy the loop runs over.
CompressBlocksEnter ==
    /\ disk.pc = "ready"
    /\ disk' = [disk EXCEPT !.pc = "blocks",
                            !.replace_count = 0,
                            !.reversed = Reversed(disk.disk_blocks),
                            !.idx = 0]
    /\ UNCHANGED not_disk

\* The loop is at a block of the reversed copy.
AtBlock == disk.pc = "blocks" /\ disk.idx < Len(disk.reversed)

\* The block the loop is at.
CurrentBlock == disk.reversed[disk.idx + 1]

\* block_idx = self.disk_blocksize - idx - 1
BlockIdx == disk.disk_blocksize - disk.idx - 1

\* if block is None: continue
BlockSkip ==
    /\ AtBlock
    /\ CurrentBlock = None
    /\ disk' = [disk EXCEPT !.idx = disk.idx + 1]
    /\ UNCHANGED not_disk

\* heappop on an empty heap: an uncaught IndexError ends main.
BlockRaise ==
    /\ AtBlock
    /\ CurrentBlock # None
    /\ disk.empty_block_ids = {}
    /\ disk' = [disk EXCEPT !.pc = "IndexError"]
    /\ UNCHANGED not_disk

\* The popped index lies behind the block: break, and compress_blocks
\* returns replace_count.
BlockBreak ==
    /\ AtBlock
    /\ CurrentBlock # None
    /\ disk.empty_block_ids # {}
    /\ BlockIdx < HeapMin(disk.empty_block_ids)
    /\ disk' = [disk EXCEPT
                  !.pc = "blocks_done",
                  !.empty_block_ids = @ \ {HeapMin(disk.empty_block_ids)}]
    /\ UNCHANGED not_disk

\* A swap that puts the block where it already is, at block_idx; it leaves
\* the free block at empty_idx free.
BlockSwapInPlace ==
    /\ AtBlock
    /\ CurrentBlock # None
    /\ disk.empty_block_ids # {}
    /\ BlockIdx >= HeapMin(disk.empty_block_ids)
    /\ disk' = [disk EXCEPT
                  !.idx = disk.idx + 1,
                  !.replace_count = disk.replace_count + 1]
    /\ UNCHANGED not_disk

\* The block is swapped with the free block of lowest index, the index it
\* leaves is pushed on the heap, and the move is counted.
BlockSwap ==
    /\ AtBlock
    /\ CurrentBlock # None
    /\ disk.empty_block_ids # {}
    /\ BlockIdx >= HeapMin(disk.empty_block_ids)
    /\ LET empty_idx == HeapMin(disk.empty_block_ids)
       IN  disk' = [disk EXCEPT
                      !.disk_blocks =
                          [[@ EXCEPT ![empty_idx + 1] = CurrentBlock]
                              EXCEPT ![BlockIdx + 1] = None],
                      !.empty_block_ids = (@ \ {empty_idx}) \cup {BlockIdx},
                      !.idx = disk.idx + 1,
                      !.replace_count = disk.replace_count + 1]
    /\ UNCHANGED not_disk

\* The loop has run over every block: compress_blocks returns.
BlockEnd ==
    /\ disk.pc = "blocks"
    /\ disk.idx = Len(disk.reversed)
    /\ disk' = [disk EXCEPT !.pc = "blocks_done"]
    /\ UNCHANGED not_disk

\* main prints the block checksum and compress_groups starts: the data
\* groups of the group list, last first.
CompressGroupsEnter ==
    /\ disk.pc = "blocks_done"
    /\ disk' = [disk EXCEPT
                  !.pc = "groups",
                  !.part1 = BlockChecksum(disk.disk_blocks, Len(disk.disk_blocks)),
                  !.pending = Reversed(DataGroups(disk.disk_groups))]
    /\ UNCHANGED not_disk

\* compress_groups is at a group of its list.
AtGroup == disk.pc = "groups" /\ disk.pending # <<>>

\* The group replace_blockgroup is called with.
CurrentGroup == Head(disk.pending)

\* No replacement possible: find_first_empty_space returns None.
GroupNoSpace ==
    /\ AtGroup
    /\ FindFirstEmptySpace(disk.disk_groups, CurrentGroup.size) = None
    /\ disk' = [disk EXCEPT !.pending = Tail(disk.pending)]
    /\ UNCHANGED not_disk

\* The first fitting space lies behind the group: no replacement.
GroupNoGain ==
    /\ AtGroup
    /\ FindFirstEmptySpace(disk.disk_groups, CurrentGroup.size) # None
    /\ GroupIndex(disk.disk_groups, CurrentGroup)
          < FindFirstEmptySpace(disk.disk_groups, CurrentGroup.size)
    /\ disk' = [disk EXCEPT !.pending = Tail(disk.pending)]
    /\ UNCHANGED not_disk

\* The group fills the space exactly: the two groups exchange their data.
GroupExact ==
    /\ AtGroup
    /\ FindFirstEmptySpace(disk.disk_groups, CurrentGroup.size) # None
    /\ LET empty_idx == FindFirstEmptySpace(disk.disk_groups, CurrentGroup.size)
           group_idx == GroupIndex(disk.disk_groups, CurrentGroup)
       IN  /\ group_idx >= empty_idx
           /\ CurrentGroup.size = disk.disk_groups[empty_idx + 1].size
           /\ disk' = [disk EXCEPT
                         !.disk_groups =
                             [[@ EXCEPT ![empty_idx + 1].data = CurrentGroup.data]
                                 EXCEPT ![group_idx + 1].data = None],
                         !.pending = Tail(disk.pending)]
    /\ UNCHANGED not_disk

\* The group is smaller than the space: the space takes the group's data
\* and size, the group loses its data, and the remainder of the space is
\* inserted behind.
GroupSplit ==
    /\ AtGroup
    /\ FindFirstEmptySpace(disk.disk_groups, CurrentGroup.size) # None
    /\ LET empty_idx == FindFirstEmptySpace(disk.disk_groups, CurrentGroup.size)
           group_idx == GroupIndex(disk.disk_groups, CurrentGroup)
           empty_size == disk.disk_groups[empty_idx + 1].size
           remainder == [size |-> empty_size - CurrentGroup.size, data |-> None]
       IN  /\ group_idx >= empty_idx
           /\ CurrentGroup.size < empty_size
           /\ disk' = [disk EXCEPT
                         !.disk_groups =
                             Insert([[@ EXCEPT ![empty_idx + 1] = CurrentGroup]
                                        EXCEPT ![group_idx + 1].data = None],
                                    empty_idx + 1, remainder),
                         !.pending = Tail(disk.pending)]
    /\ UNCHANGED not_disk

\* compress_groups returns and main prints the group checksum.
GroupsEnd ==
    /\ disk.pc = "groups"
    /\ disk.pending = <<>>
    /\ disk' = [disk EXCEPT !.pc = "done",
                            !.part2 = GroupChecksum(disk.disk_groups)]
    /\ UNCHANGED not_disk

NextDisk ==
    \/ CompressBlocksEnter
    \/ BlockSkip
    \/ BlockRaise
    \/ BlockBreak
    \/ BlockSwap
    \/ BlockEnd
    \/ CompressGroupsEnter
    \/ GroupNoSpace
    \/ GroupNoGain
    \/ GroupExact
    \/ GroupSplit
    \/ GroupsEnd

\* main of Day 9 on every enumerated disk map string.
SpecDisk == InitDisk /\ [][NextDisk]_vars

(***************************************************************************)
(* Day 9 compaction (SpecDisk).                                            *)
(***************************************************************************)
\* disk_blocks as Disk(map_str) built them, before any compaction.
InitialBlocks == ProcessDiskBlockmap(disk.map_str)

\* compress_blocks has returned.
CompressBlocksReturned == disk.pc \in {"blocks_done", "groups", "done"}

\* The disk map has at least one free block.
HasFreeBlock == \E i \in 1 .. Len(InitialBlocks) : InitialBlocks[i] = None

\* The number of blocks that hold value v.
BlockCount(blocks, v) == Cardinality({ i \in 1 .. Len(blocks) : blocks[i] = v })

\* C14: on a disk map with at least one free block compress_blocks returns,
\* and then no free block precedes a data block, disk_blocks has the length
\* and, for every file id, the number of blocks it had before, and the
\* returned count is the number of free blocks that now hold data.
BlocksCompacted ==
    HasFreeBlock =>
        /\ disk.pc # "IndexError"
        /\ CompressBlocksReturned =>
            /\ \A i, j \in 1 .. Len(disk.disk_blocks) :
                  (i < j /\ disk.disk_blocks[i] = None)
                      => disk.disk_blocks[j] = None
            /\ Len(disk.disk_blocks) = Len(InitialBlocks)
            /\ \A id \in 0 .. Len(disk.map_str) :
                  BlockCount(disk.disk_blocks, id) = BlockCount(InitialBlocks, id)
            /\ disk.replace_count =
                  Cardinality({ i \in 1 .. Len(InitialBlocks) :
                                  /\ InitialBlocks[i] = None
                                  /\ disk.disk_blocks[i] # None })

\* C14 witness: compress_blocks has returned after moving two blocks of a
\* disk on which a free block lay between data blocks.
TwoBlocksMovedWitness ==
    /\ disk.pc = "blocks_done"
    /\ disk.replace_count = 2
    /\ \E i, j \in 1 .. Len(InitialBlocks) :
          i < j /\ InitialBlocks[i] = None /\ InitialBlocks[j] # None

\* The position (from 1) of the first block of file id.
FirstBlock(blocks, id) ==
    CHOOSE i \in 1 .. Len(blocks) :
        blocks[i] = id /\ \A j \in 1 .. (i - 1) : blocks[j] # id

\* The positions left of `pos` at which `size` free blocks in a row start.
FreeSpans(blocks, pos, size) ==
    { i \in 1 .. (pos - 1) :
        /\ i + size - 1 < pos
        /\ \A k \in i .. (i + size - 1) : blocks[k] = None }

\* The layout with the blocks of file id moved to `target` and following.
MovedTo(blocks, id, size, target) ==
    [k \in 1 .. Len(blocks) |->
        IF k >= target /\ k < target + size THEN id
        ELSE IF blocks[k] = id THEN None
        ELSE blocks[k]]

\* C15: compress_groups attempts the files in decreasing order of file id;
\* the attempt on a file moves it to the start of the leftmost span of free
\* blocks, left of the file, that is at least as long as the file, and
\* leaves the disk as it is when there is no such span; no other block
\* changes, so the number of blocks and the size of every file stay.
FileMovesToLeftmostSpan ==
    [][ AtGroup =>
          /\ \A i \in 2 .. Len(disk.pending) :
                disk.pending[i].data < disk.pending[i - 1].data
          /\ CurrentGroup.size > 0 =>
                LET before == GroupBlocks(disk.disk_groups)
                    after == GroupBlocks(disk'.disk_groups)
                    id == CurrentGroup.data
                    size == CurrentGroup.size
                    spans == FreeSpans(before, FirstBlock(before, id), size)
                IN  IF spans = {} THEN after = before
                    ELSE after =
                           MovedTo(before, id, size,
                                   CHOOSE i \in spans : \A j \in spans : i <= j)
      ]_vars

(***************************************************************************)
(* Day 6: the LabMap of 2024/Day6/solution_day6_aoc2024.py.                *)
(* A cell value is the display letter of its LabObject: "G" guard,         *)
(* "#" wall, "." space, "X" visited, "O" obstacle, "S" start.              *)
(* A Direction is its enum value: 1 up, 2 right, 3 down, 4 left.           *)
(***************************************************************************)
\* Largest number of cells of an enumerated lab map.
MaxLabCells == 9

\* Direction.turn_right
TurnRight(d) == (d % 4) + 1

\* The change in (y, x) of one step in direction d (next_guard_cell).
LabStep(d) ==
    CASE d = 1 -> <<-1, 0>>
      [] d = 2 -> <<0, 1>>
      [] d = 3 -> <<1, 0>>
      [] d = 4 -> <<0, -1>>

\* guard_cell is None: the guard has left the map.
Gone == <<-1, -1>>

\* LabMap.is_valid_point
IsValidPoint(l, c) ==
    0 <= c[2] /\ c[2] < l.width /\ 0 <= c[1] /\ c[1] < l.height

\* Cell.is_visitable
IsVisitable(value) == value = "." \/ value = "X"

\* LabMap(text_map) for a map of h rows and w columns with the guard at g
\* facing d, '#' at the cells of walls and '.' elsewhere.
NewLab(h, w, g, d, walls) ==
    LET cells == [c \in Coords(h, w) |->
                     IF c = g THEN "G" ELSE IF c \in walls THEN "#" ELSE "."]
    IN  [pc |-> "ready", height |-> h, width |-> w,
         original_map |-> cells, start_cell |-> g, start_direction |-> d,
         cell_map |-> cells, guard_cell |-> g, guard_direction |-> d,
         faced_obstacles |-> {}, has_infinite_loop |-> FALSE,
         todo |-> <<>>, count |-> 0, part1 |-> 0, part2 |-> 0]

\* LabMap.step_guard_forward
StepGuardForward(l, target) ==
    [l EXCEPT !.cell_map = [[@ EXCEPT ![l.guard_cell] = "X"]
                               EXCEPT ![target] = "G"],
              !.guard_cell = target]

\* LabMap.exit_guard
ExitGuard(l, cell) ==
    [l EXCEPT !.cell_map = [[@ EXCEPT ![cell] = "X"]
                               EXCEPT ![l.start_cell] = "S"],
              !.guard_cell = Gone,
              !.guard_direction = 0]

RECURSIVE WalkGuard(_)
\* LabMap.walk_guard, from one test of the while condition on.
WalkGuard(l) ==
    IF l.guard_cell = Gone \/ l.guard_direction = 0 THEN l
    ELSE
    LET target == <<l.guard_cell[1] + LabStep(l.guard_direction)[1],
                    l.guard_cell[2] + LabStep(l.guard_direction)[2]>>
        faced_obstacle == <<target[1], target[2], l.guard_direction>>
        turned == [l EXCEPT !.guard_direction = TurnRight(l.guard_direction)]
    IN  IF ~IsValidPoint(l, target) THEN ExitGuard(l, l.guard_cell)
        ELSE IF ~IsVisitable(l.cell_map[target])
        THEN IF faced_obstacle \in l.faced_obstacles
             THEN [turned EXCEPT !.has_infinite_loop = TRUE]
             ELSE WalkGuard([turned EXCEPT
                               !.faced_obstacles = @ \cup {faced_obstacle}])
        ELSE WalkGuard(StepGuardForward(l, target))

RECURSIVE Boundary(_, _, _)
\* The while loop of next_turn_cell: the first point from `target` on, in
\* direction d, that is off the map or not visitable.
Boundary(l, target, d) ==
    IF IsValidPoint(l, target) /\ IsVisitable(l.cell_map[target])
    THEN Boundary(l, <<target[1] + LabStep(d)[1], target[2] + LabStep(d)[2]>>, d)
    ELSE target

RECURSIVE JumpGuard(_)
\* LabMap.jump_guard with next_turn_cell, from one test of the while
\* condition on.
JumpGuard(l) ==
    IF l.guard_cell = Gone \/ l.guard_direction = 0 THEN l
    ELSE
    LET d == l.guard_direction
        boundary == Boundary(l, <<l.guard_cell[1] + LabStep(d)[1],
                                  l.guard_cell[2] + LabStep(d)[2]>>, d)
        last_cell == <<boundary[1] - LabStep(d)[1], boundary[2] - LabStep(d)[2]>>
        faced_obstacle == <<boundary[1], boundary[2], d>>
        moved == StepGuardForward(l, last_cell)
    IN  IF ~IsValidPoint(l, boundary) THEN ExitGuard(l, last_cell)
        ELSE IF faced_obstacle \in l.faced_obstacles
        THEN [moved EXCEPT !.has_infinite_loop = TRUE]
        ELSE JumpGuard([moved EXCEPT
                          !.faced_obstacles = @ \cup {faced_obstacle},
                          !.guard_direction = TurnRight(d)])

\* LabMap.reset_map
ResetMap(l) ==
    [l EXCEPT !.cell_map = l.original_map,
              !.guard_cell = l.start_cell,
              !.guard_direction = l.start_direction,
              !.faced_obstacles = {},
              !.has_infinite_loop = FALSE]

\* LabMap.place_obstacle
PlaceObstacle(l, cell) == [l EXCEPT !.cell_map[cell] = "O"]

RECURSIVE WalkedFrom(_, _)
\* LabMap.find_walked_cells from the k-th cell (from 0) in reading order on.
WalkedFrom(l, k) ==
    LET c == <<k \div l.width, k % l.width>>
    IN  IF k >= l.height * l.width THEN <<>>
        ELSE IF l.cell_map[c] = "X" THEN <<c>> \o WalkedFrom(l, k + 1)
        ELSE WalkedFrom(l, k + 1)

\* LabMap.count_visited
CountVisited(l) ==
    Cardinality({ c \in DOMAIN l.cell_map : l.cell_map[c] \in {"X", "S"} })

\* Everything but the LabMap.
not_lab ==
    <<maze, cell_map, path_queue, best_path, best_paths, pc, outcome, prev,
      text, disk, compared, warehouse, manager>>

\* The grid dimensions (height, width) of at most MaxLabCells cells.
LabDims ==
    { d \in (1 .. MaxLabCells) \X (1 .. MaxLabCells) : d[1] * d[2] <= MaxLabCells }

\* A 4x4 map on which the guard walks in a circle with no obstacle added:
\*   .#..
\*   ...#
\*   #^..
\*   ..#.
CircleLab ==
    NewLab(4, 4, <<2, 1>>, 1, {<<0, 1>>, <<1, 3>>, <<2, 0>>, <<3, 2>>})

\* main has constructed the LabMap of a rectangular map with one guard.
InitLab ==
    /\ \/ \E d \in LabDims :
            \E g \in Coords(d[1], d[2]) :
              \E dir \in 1 .. 4 :
                \E walls \in SUBSET (Coords(d[1], d[2]) \ {g}) :
                  lab = NewLab(d[1], d[2], g, dir, walls)
       \/ lab = CircleLab
    /\ disk = NoDisk
    /\ compared = NoCompared
    /\ warehouse = NoWarehouse
    /\ manager = NoManager
    /\ NoMazeRun

\* lab_map.walk_guard(), the print of count_visited(), and the start of
\* count_infinite_placements: find_walked_cells runs over the walked map.
LabWalk ==
    /\ lab.pc = "ready"
    /\ LET l == WalkGuard(lab)
       IN  lab' = [l EXCEPT !.pc = "placing",
                            !.part1 = CountVisited(l),
                            !.todo = WalkedFrom(l, 0),
                            !.count = 0]
    /\ UNCHANGED not_lab

\* One pass of the loop of count_infinite_placements: reset, place the
\* obstacle, jump_guard, count.
LabPlace ==
    /\ lab.pc = "placing"
    /\ lab.todo # <<>>
    /\ LET l == JumpGuard(PlaceObstacle(ResetMap(lab), Head(lab.todo)))
       IN  lab' = [l EXCEPT !.todo = Tail(lab.todo),
                            !.count = IF l.has_infinite_loop
                                      THEN lab.count + 1
                                      ELSE lab.count]
    /\ UNCHANGED not_lab

\* count_infinite_placements returns and main prints the count.
LabReturn ==
    /\ lab.pc = "placing"
    /\ lab.todo = <<>>
    /\ lab' = [lab EXCEPT !.pc = "done", !.part2 = lab.count]
    /\ UNCHANGED not_lab

NextLab == LabWalk \/ LabPlace \/ LabReturn

\* main of Day 6 on every enumerated map.
SpecLab == InitLab /\ [][NextLab]_vars

(***************************************************************************)
(* Day 6 loop placements (SpecLab).                                        *)
(***************************************************************************)
\* The original map with the guard at its start and one obstacle added at c.
WithObstacle(l, c) == PlaceObstacle(ResetMap(l), c)

\* The cells, other than the start cell and the walls, at which one added
\* obstacle makes the guard, walked cell by cell, never leave the map.
LoopPlacements(l) ==
    { c \in DOMAIN l.original_map :
        /\ l.original_map[c] = "."
        /\ WalkGuard(WithObstacle(l, c)).has_infinite_loop }

\* C16: count_infinite_placements returns the number of cells, other than
\* the start cell, at which one added obstacle makes the cell-by-cell walk
\* never leave the map (when the guard never leaves the original map
\* either, and no obstacle makes the difference, a count of zero is
\* accepted as well); and on every map jump_guard is run on, it sets
\* has_infinite_loop exactly when walk_guard does.
PlacementsCounted ==
    /\ lab.pc = "done" =>
          \/ lab.part2 = Cardinality(LoopPlacements(lab))
          \/ /\ WalkGuard(ResetMap(lab)).has_infinite_loop
             /\ lab.part2 = 0
    /\ (lab.pc = "placing" /\ lab.todo # <<>>) =>
          JumpGuard(WithObstacle(lab, Head(lab.todo))).has_infinite_loop
              = WalkGuard(WithObstacle(lab, Head(lab.todo))).has_infinite_loop
    /\ lab.pc = "ready" =>
          JumpGuard(lab).has_infinite_loop = WalkGuard(lab).has_infinite_loop

(***************************************************************************)
(* The order of Distances: __lt__, the attrs-generated __eq__ and the      *)
(* three-way test find_optimal_paths makes on an arrival at the end cell.  *)
(***************************************************************************)
\* The Distances compared have at most MaxCostTurns turns, and a number of
\* steps that is at most MaxExtraSteps or exceeds the weight of a turn by at
\* most MaxExtraSteps.
MaxCostTurns == 2
MaxExtraSteps == 2

Costs ==
    { Distance(t, s) :
        t \in 0 .. MaxCostTurns,
        s \in (0 .. MaxExtraSteps) \cup (TurnWeight .. (TurnWeight + MaxExtraSteps)) }

\* Everything but the pair of Distances.
not_compared ==
    <<maze, cell_map, path_queue, best_path, best_paths, pc, outcome, prev,
      text, disk, lab, warehouse, manager>>

\* Two Distances a and b are about to be compared.
InitCost ==
    /\ \E a \in Costs :
         \E b \in Costs :
           compared = [pc |-> "drawn", a |-> a, b |-> b,
                       lt |-> FALSE, eq |-> FALSE, gt |-> FALSE,
                       branch |-> "none"]
    /\ disk = NoDisk
    /\ lab = NoLab
    /\ warehouse = NoWarehouse
    /\ manager = NoManager
    /\ NoMazeRun

\* a < b, a == b and b < a, and the branch the arrival test takes for
\* current = a and best = b: `if current < best` replaces the best path,
\* `elif current == best` appends to best_paths, otherwise nothing is done.
Compare ==
    /\ compared.pc = "drawn"
    /\ LET a == compared.a
           b == compared.b
       IN  compared' =
               [compared EXCEPT
                   !.pc = "compared",
                   !.lt = DistanceLt(a, b),
                   !.eq = DistanceEq(a, b),
                   !.gt = DistanceLt(b, a),
                   !.branch = IF DistanceLt(a, b) THEN "replace"
                              ELSE IF DistanceEq(a, b) THEN "append"
                              ELSE "ignore"]
    /\ UNCHANGED not_compared

NextCost == Compare

SpecCost == InitCost /\ [][NextCost]_vars

(***************************************************************************)
(* The order of Distances (SpecCost).                                      *)
(***************************************************************************)
\* C27: for two Distances a and b with non-negative integer turns and steps,
\* a < b holds exactly when the score of a is below the score of b, exactly
\* one of a < b, a == b, b < a holds, and an arrival whose score equals the
\* best score is treated as a tie by the search.
CostOrderIsTotal ==
    compared.pc = "compared" =>
        LET sa == Score(compared.a)
            sb == Score(compared.b)
        IN  /\ compared.lt <=> sa < sb
            /\ Cardinality({ k \in {"lt", "eq", "gt"} : compared[k] }) = 1
            /\ sa = sb => compared.branch = "append"

(***************************************************************************)
(* 2024 Day 15, the wide warehouse: Warehouse.from_text, the double grid   *)
(* built by __attrs_post_init__, and Warehouse.p2_move_items with the      *)
(* searches find_movable_cells and find_boxes_to_move.                     *)
(*                                                                         *)
(* A position is the pair (y, x) the code keeps, which can leave the grid: *)
(* a list index i of a list of length n is accepted by Python when         *)
(* -n <= i < n, a negative one counting from the end, and raises           *)
(* IndexError otherwise.                                                   *)
(***************************************************************************)
\* A map text has at most MaxWarehouseCells cells, not counting the wall
\* around it when it has one.
MaxWarehouseCells == 4

Moves == {"^", "v", "<", ">"}

MoveY(move) == CASE move = "^" -> -1 [] move = "v" -> 1 [] OTHER -> 0

MoveX(move) == CASE move = "<" -> -1 [] move = ">" -> 1 [] OTHER -> 0

Ahead(position, move) == <<position[1] + MoveY(move), position[2] + MoveX(move)>>

\* list[i] of a list of length n: whether it is accepted, and the element
\* of the sequence it reads or writes.
Accepted(i, n) == -n <= i /\ i < n

Element(i, n) == (IF i < 0 THEN i + n ELSE i) + 1

Indexable(grid, position) ==
    /\ Accepted(position[1], Len(grid))
    /\ Accepted(position[2], Len(grid[Element(position[1], Len(grid))]))

CellAt(grid, position) ==
    LET y == Element(position[1], Len(grid))
    IN  grid[y][Element(position[2], Len(grid[y]))]

SetCell(grid, position, cell) ==
    LET y == Element(position[1], Len(grid))
    IN  [grid EXCEPT ![y][Element(position[2], Len(grid[y]))] = cell]

\* The cells of a grid that hold the given character, as pairs (y, x)
\* counted from 0.
CellsHolding(grid, cell) ==
    { p \in (0 .. Len(grid) - 1) \X (0 .. Len(grid[1]) - 1) :
          CellAt(grid, p) = cell }

\* __attrs_post_init__: every cell is written twice, a box as "[" and "]",
\* the robot as "@" and ".".
DoubleGrid(grid) ==
    [y \in 1 .. Len(grid) |->
        [x \in 1 .. 2 * Len(grid[y]) |->
            LET cell == grid[y][(x + 1) \div 2]
            IN  IF cell = "O" THEN (IF x % 2 = 1 THEN "[" ELSE "]")
                ELSE IF cell = "@" THEN (IF x % 2 = 1 THEN "@" ELSE ".")
                ELSE cell]]

\* from_text on a rectangular text with one "@": the double grid, the
\* robot at (y, 2x), and what the map starts with.
WarehouseFromText(grid, robot_position) ==
    [pc |-> "parsed",
     double_grid |-> DoubleGrid(grid),
     double_robot_position |-> <<robot_position[1], 2 * robot_position[2]>>,
     walls |-> CellsHolding(DoubleGrid(grid), "#"),
     boxes |-> Cardinality(CellsHolding(DoubleGrid(grid), "[")),
     moved |-> FALSE]

\* The text of height h and width w with the given cells, and the same
\* text inside a wall.
TextGrid(h, w, cells) == [y \in 1 .. h |-> [x \in 1 .. w |-> cells[<<y, x>>]]]

Enclosed(h, w, cells) ==
    [y \in 1 .. h + 2 |->
        [x \in 1 .. w + 2 |->
            IF y \in {1, h + 2} \/ x \in {1, w + 2} THEN "#"
            ELSE cells[<<y - 1, x - 1>>]]]

\* Everything but the warehouse.
not_warehouse ==
    <<maze, cell_map, path_queue, best_path, best_paths, pc, outcome, prev,
      text, disk, lab, compared, manager>>

\* A map has been parsed: a rectangle of walls, boxes and free cells with
\* one robot, with or without a wall around it.
InitWarehouse ==
    /\ \E h \in 1 .. MaxWarehouseCells :
         \E w \in 1 .. MaxWarehouseCells \div h :
           \E robot \in (1 .. h) \X (1 .. w) :
             \E others \in [(1 .. h) \X (1 .. w) -> {"#", "O", "."}] :
               \E walled \in BOOLEAN :
                 LET cells == [others EXCEPT ![robot] = "@"]
                 IN  warehouse =
                       IF walled
                       THEN WarehouseFromText(Enclosed(h, w, cells),
                                              <<robot[1], robot[2]>>)
                       ELSE WarehouseFromText(TextGrid(h, w, cells),
                                              <<robot[1] - 1, robot[2] - 1>>)
    /\ disk = NoDisk
    /\ lab = NoLab
    /\ compared = NoCompared
    /\ manager = NoManager
    /\ NoMazeRun

\* find_movable_cells from the second position on: the positions up to the
\* first free cell, None at a wall, IndexError when a position is not
\* accepted.
RECURSIVE MovableFrom(_, _, _, _)
MovableFrom(grid, move, movable_positions, next_position) ==
    IF ~Indexable(grid, next_position)
    THEN [kind |-> "IndexError", positions |-> <<>>]
    ELSE IF CellAt(grid, next_position) = "#"
    THEN [kind |-> "None", positions |-> <<>>]
    ELSE IF CellAt(grid, next_position) = "."
    THEN [kind |-> "found",
          positions |-> Append(movable_positions, next_position)]
    ELSE MovableFrom(grid, move, Append(movable_positions, next_position),
                     Ahead(next_position, move))

find_movable_cells(start, grid, move) ==
    MovableFrom(grid, move, <<start>>, Ahead(start, move))

\* The loop of find_boxes_to_move from next_position on: a box part adds
\* the box and searches from the other part before the loop goes on, a
\* wall anywhere gives None, a free cell ends this search.
RECURSIVE BoxesFrom(_, _, _, _)
BoxesFrom(grid, next_position, move, boxes_to_move) ==
    IF ~Indexable(grid, next_position)
    THEN [kind |-> "IndexError", boxes |-> {}]
    ELSE
    LET cell == CellAt(grid, next_position)
        box_part ==
            IF cell = "[" THEN <<next_position[1], next_position[2] + 1>>
            ELSE <<next_position[1], next_position[2] - 1>>
        box ==
            IF cell = "[" THEN <<next_position, box_part>>
            ELSE <<box_part, next_position>>
        other == BoxesFrom(grid, Ahead(box_part, move), move,
                           boxes_to_move \cup {box})
    IN  IF cell = "#" THEN [kind |-> "None", boxes |-> {}]
        ELSE IF cell = "." THEN [kind |-> "found", boxes |-> boxes_to_move]
        ELSE IF cell \in {"[", "]"}
        THEN IF other.kind # "found" THEN other
             ELSE BoxesFrom(grid, Ahead(next_position, move), move, other.boxes)
        ELSE BoxesFrom(grid, Ahead(next_position, move), move, boxes_to_move)

find_boxes_to_move(grid, start_position, move) ==
    BoxesFrom(grid, Ahead(start_position, move), move, {})

\* The loop of p1_move_items that writes the rotated values: position i
\* gets the value position i - 1 had, the first one the value of the last.
RECURSIVE WriteRotated(_, _, _, _)
WriteRotated(grid, before, positions_to_move, i) ==
    IF i > Len(positions_to_move) THEN grid
    ELSE WriteRotated(
             SetCell(grid, positions_to_move[i],
                     CellAt(before,
                            positions_to_move[IF i = 1
                                              THEN Len(positions_to_move)
                                              ELSE i - 1])),
             before, positions_to_move, i + 1)

\* The loop of p2_move_items over the sorted boxes: a box is written one
\* row on and its two cells are freed.
RECURSIVE WriteBoxes(_, _, _, _)
WriteBoxes(grid, boxes, move, i) ==
    IF i > Len(boxes) THEN grid
    ELSE LET left == boxes[i][1]
             right == boxes[i][2]
         IN  WriteBoxes(
                 SetCell(SetCell(SetCell(SetCell(grid,
                     Ahead(left, move), "["),
                     Ahead(right, move), "]"),
                     left, "."),
                     right, "."),
                 boxes, move, i + 1)

\* sorted(boxes_to_move, key = row of the left part, reverse for DOWN): the
\* order of two boxes of one row is the order the set yields them in, which
\* is any order.
SortedBoxes(boxes_to_move, move) ==
    { boxes \in [1 .. Cardinality(boxes_to_move) -> boxes_to_move] :
        /\ \A i, j \in DOMAIN boxes : i # j => boxes[i] # boxes[j]
        /\ \A i, j \in DOMAIN boxes :
               i < j => IF move = "v"
                        THEN boxes[i][1][1] >= boxes[j][1][1]
                        ELSE boxes[i][1][1] <= boxes[j][1][1] }

\* p1_move_items(move, simple=False), the whole of p2_move_items for LEFT
\* and RIGHT.
p1_move_items ==
    /\ warehouse.pc \in {"parsed", "moved"}
    /\ \E move \in {"<", ">"} :
         LET start == warehouse.double_robot_position
             grid == warehouse.double_grid
             positions_to_move == find_movable_cells(start, grid, move)
         IN  warehouse' =
               IF positions_to_move.kind = "IndexError"
               THEN [warehouse EXCEPT !.pc = "IndexError", !.moved = FALSE]
               ELSE IF positions_to_move.kind = "None"
               THEN [warehouse EXCEPT !.pc = "moved", !.moved = FALSE]
               ELSE [warehouse EXCEPT
                        !.pc = "moved",
                        !.moved = TRUE,
                        !.double_grid =
                            WriteRotated(grid, grid,
                                         positions_to_move.positions, 1),
                        !.double_robot_position = Ahead(start, move)]
    /\ UNCHANGED not_warehouse

\* p2_move_items for UP and DOWN.
p2_move_items ==
    /\ warehouse.pc \in {"parsed", "moved"}
    /\ \E move \in {"^", "v"} :
         LET start == warehouse.double_robot_position
             grid == warehouse.double_grid
             boxes_to_move == find_boxes_to_move(grid, start, move)
         IN  IF boxes_to_move.kind = "IndexError"
             THEN warehouse' =
                      [warehouse EXCEPT !.pc = "IndexError", !.moved = FALSE]
             ELSE IF boxes_to_move.kind = "None"
             THEN warehouse' =
                      [warehouse EXCEPT !.pc = "moved", !.moved = FALSE]
             ELSE \E boxes \in SortedBoxes(boxes_to_move.boxes, move) :
                    LET next_robot == Ahead(start, move)
                    IN  warehouse' =
                          [warehouse EXCEPT
                              !.pc = "moved",
                              !.moved = TRUE,
                              !.double_grid =
                                  SetCell(SetCell(
                                      WriteBoxes(grid, boxes, move, 1),
                                      next_robot, "@"),
                                      start, "."),
                              !.double_robot_position = next_robot]
    /\ UNCHANGED not_warehouse

NextWarehouse == p1_move_items \/ p2_move_items

SpecWarehouse == InitWarehouse /\ [][NextWarehouse]_vars

\* is_valid_map: False at a "[" that is not followed by "]", IndexError
\* when that "[" is the last cell of its row, True otherwise.
is_valid_map(double_grid) ==
    LET lefts == CellsHolding(double_grid, "[")
        first ==
            CHOOSE p \in lefts :
                /\ CellAt(double_grid, p) = "["
                /\ \/ p[2] + 1 = Len(double_grid[1])
                   \/ CellAt(double_grid, <<p[1], p[2] + 1>>) # "]"
                /\ \A q \in lefts :
                       (\/ q[1] < p[1]
                        \/ q[1] = p[1] /\ q[2] < p[2])
                           => /\ q[2] + 1 < Len(double_grid[1])
                              /\ CellAt(double_grid, <<q[1], q[2] + 1>>) = "]"
    IN  IF \A p \in lefts :
               /\ p[2] + 1 < Len(double_grid[1])
               /\ CellAt(double_grid, <<p[1], p[2] + 1>>) = "]"
        THEN "True"
        ELSE IF first[2] + 1 = Len(double_grid[1]) THEN "IndexError"
        ELSE "False"

(***************************************************************************)
(* The wide warehouse (SpecWarehouse).                                     *)
(***************************************************************************)
\* The double grid after the calls made so far: every "[" has a "]" to its
\* right and every "]" a "[" to its left, the boxes are as many and the
\* walls are where they were in the parsed map, and there is one "@", in
\* the cell that double_robot_position indexes.
WellFormed ==
    LET grid == warehouse.double_grid
        width == Len(grid[1])
    IN  /\ \A p \in CellsHolding(grid, "[") :
               /\ p[2] + 1 < width
               /\ CellAt(grid, <<p[1], p[2] + 1>>) = "]"
        /\ \A p \in CellsHolding(grid, "]") :
               /\ p[2] > 0
               /\ CellAt(grid, <<p[1], p[2] - 1>>) = "["
        /\ Cardinality(CellsHolding(grid, "[")) = warehouse.boxes
        /\ CellsHolding(grid, "#") = warehouse.walls
        /\ Cardinality(CellsHolding(grid, "@")) = 1
        /\ Indexable(grid, warehouse.double_robot_position)
        /\ CellAt(grid, warehouse.double_robot_position) = "@"

\* C29: after any sequence of p2_move_items calls on a parsed map the
\* double grid is well-formed (paired box halves, the same number of boxes,
\* the same walls, one robot cell at double_robot_position), and a call
\* that a wall blocks changes neither the grid nor the robot position.
DoubleGridStaysWellFormed ==
    /\ [](warehouse.pc = "moved" => WellFormed)
    /\ [][(warehouse'.pc = "moved" /\ ~warehouse'.moved) =>
              /\ warehouse'.double_grid = warehouse.double_grid
              /\ warehouse'.double_robot_position
                     = warehouse.double_robot_position]_vars

\* The same for the maps that have a wall all around.
Walled ==
    LET grid == warehouse.double_grid
    IN  \A p \in (0 .. Len(grid) - 1) \X (0 .. Len(grid[1]) - 1) :
            (\/ p[1] \in {0, Len(grid) - 1}
             \/ p[2] \in {0, 1, Len(grid[1]) - 2, Len(grid[1]) - 1})
                => CellAt(grid, p) = "#"

WalledStaysWellFormed ==
    (warehouse.pc = "moved" /\ Walled) =>
        /\ WellFormed
        /\ is_valid_map(warehouse.double_grid) = "True"
        /\ warehouse.double_robot_position \in CellsHolding(warehouse.double_grid, "@")

(***************************************************************************)
(* 2025 Day 8, the circuits of junction boxes: ConnectionManager with its  *)
(* queue of the shortest edges, and connect_shortest_edge with             *)
(* Circuit.add_point and Circuit.add_points.                               *)
(*                                                                         *)
(* A junction box is known by its unique_id, which the counter             *)
(* next_junction_box_id makes 1, 2, ... in the order of the input lines;   *)
(* the circuit_id None of a box in no circuit is written 0, which the      *)
(* tests `if circuit_id_a and circuit_id_b` take like None.                *)
(***************************************************************************)
\* An input has at most MaxBoxes junction boxes.
MaxBoxes == 4

\* The places a junction box can be at: the origin and a point on each
\* axis, at distances that all differ.
Places == {<<0, 0, 0>>, <<1, 0, 0>>, <<0, 2, 0>>, <<0, 0, 3>>}

\* The pairs itertools.combinations(points, 2) yields, in its order.
Combinations(n) ==
    LET pairs == { p \in (1 .. n) \X (1 .. n) : p[1] < p[2] }
        Before(p, q) == p[1] < q[1] \/ (p[1] = q[1] /\ p[2] < q[2])
    IN  [k \in 1 .. Cardinality(pairs) |->
            CHOOSE p \in pairs :
                Cardinality({ q \in pairs : Before(q, p) }) = k - 1]

\* The order of the tuples (distance, (id_a, id_b)) in the queue.
EdgeLt(s, t) ==
    \/ s[1] < t[1]
    \/ s[1] = t[1] /\ s[2][1] < t[2][1]
    \/ s[1] = t[1] /\ s[2][1] = t[2][1] /\ s[2][2] < t[2][2]

Shortest(edges) == CHOOSE s \in edges : \A t \in edges \ {s} : EdgeLt(s, t)

Longest(edges) == CHOOSE s \in edges : \A t \in edges \ {s} : EdgeLt(t, s)

\* The loop of __attrs_post_init__ from the k-th pair on: the squared
\* distance of the pair is pushed while fewer than limit edges are kept,
\* and pushed with the longest edge popped afterwards.
RECURSIVE KeepShortest(_, _, _, _)
KeepShortest(points, limit, distances_pq, k) ==
    IF k > Len(Combinations(Len(points))) THEN distances_pq
    ELSE LET point_a == points[Combinations(Len(points))[k][1]]
             point_b == points[Combinations(Len(points))[k][2]]
             distance_3D ==
                 (point_a.x - point_b.x) * (point_a.x - point_b.x)
                 + (point_a.y - point_b.y) * (point_a.y - point_b.y)
                 + (point_a.z - point_b.z) * (point_a.z - point_b.z)
             distance == <<distance_3D, Combinations(Len(points))[k]>>
         IN  KeepShortest(points, limit,
                 IF Cardinality(distances_pq) < limit
                 THEN distances_pq \cup {distance}
                 ELSE (distances_pq \cup {distance})
                          \ {Longest(distances_pq \cup {distance})},
                 k + 1)

\* ConnectionManager(points, limit) as main builds it, the counter
\* next_circuit_id at its first value, no edge processed yet.
ConnectionManager(points, limit) ==
    [pc |-> "constructed",
     points |-> points,
     limit |-> limit,
     distances_pq |-> KeepShortest(points, limit, {}, 1),
     circuits |-> <<>>,
     next_circuit_id |-> 1,
     processed |-> {},
     returned |-> <<>>]

\* Everything but the manager.
not_manager ==
    <<maze, cell_map, path_queue, best_path, best_paths, pc, outcome, prev,
      text, disk, lab, compared, warehouse>>

\* The boxes have been read and the manager has been built.
InitManager ==
    /\ \E n \in 2 .. MaxBoxes :
         \E place \in [1 .. n -> Places] :
           \E limit \in 1 .. (n * (n - 1)) \div 2 :
             manager =
               ConnectionManager(
                   [i \in 1 .. n |->
                       [x |-> place[i][1], y |-> place[i][2],
                        z |-> place[i][3],
                        unique_id |-> i, circuit_id |-> 0]],
                   limit)
    /\ disk = NoDisk
    /\ lab = NoLab
    /\ compared = NoCompared
    /\ warehouse = NoWarehouse
    /\ NoMazeRun

\* Circuit.add_points (and add_point, for one point): every point gets the
\* id of the circuit and is added to its set, and the size grows by one
\* for every point handed in.
add_points_keeps_ids(m, unique_id, points) ==
    [m EXCEPT
        !.circuits[unique_id].points = @ \cup points,
        !.circuits[unique_id].size = @ + Cardinality(points)]

add_points(m, unique_id, points) ==
    [m EXCEPT
        !.points = [i \in DOMAIN m.points |->
                       IF i \in points
                       THEN [m.points[i] EXCEPT !.circuit_id = unique_id]
                       ELSE m.points[i]],
        !.circuits[unique_id].points = @ \cup points,
        !.circuits[unique_id].size = @ + Cardinality(points)]

\* self.circuits.pop(circuit_id)
WithoutCircuit(m, circuit_id) ==
    [m EXCEPT !.circuits =
        [c \in DOMAIN m.circuits \ {circuit_id} |-> m.circuits[c]]]

\* self.circuits[new_id] = Circuit(new_id, {point_a, point_b}, 2), the two
\* points having got new_id.
WithNewCircuit(m, id_a, id_b) ==
    LET new_id == m.next_circuit_id
    IN  [m EXCEPT
            !.next_circuit_id = new_id + 1,
            !.points = [i \in DOMAIN m.points |->
                           IF i \in {id_a, id_b}
                           THEN [m.points[i] EXCEPT !.circuit_id = new_id]
                           ELSE m.points[i]],
            !.circuits =
                [c \in DOMAIN m.circuits \cup {new_id} |->
                    IF c = new_id
                    THEN [unique_id |-> new_id,
                          points |-> {id_a, id_b},
                          size |-> 2]
                    ELSE m.circuits[c]]]

\* connect_shortest_edge: heappop raises IndexError on an empty queue;
\* otherwise the shortest edge is taken off and its two boxes are joined.
connect_shortest_edge ==
    /\ manager.pc \in {"constructed", "connected"}
    /\ IF manager.distances_pq = {}
       THEN manager' = [manager EXCEPT !.pc = "IndexError"]
       ELSE
       LET edge == Shortest(manager.distances_pq)
           id_a == edge[2][1]
           id_b == edge[2][2]
           circuit_id_a == manager.points[id_a].circuit_id
           circuit_id_b == manager.points[id_b].circuit_id
           popped == [manager EXCEPT
                         !.pc = "connected",
                         !.distances_pq = @ \ {edge},
                         !.processed = @ \cup {edge[2]},
                         !.returned = edge[2]]
       IN  manager' =
             IF circuit_id_a # 0 /\ circuit_id_b # 0
             THEN IF circuit_id_a = circuit_id_b
                  THEN [popped EXCEPT !.returned = <<>>]
                  ELSE add_points(WithoutCircuit(popped, circuit_id_b),
                                  circuit_id_a,
                                  manager.circuits[circuit_id_b].points)
             ELSE IF circuit_id_a # 0
             THEN add_points(popped, circuit_id_a, {id_b})
             ELSE IF circuit_id_b # 0
             THEN add_points(popped, circuit_id_b, {id_a})
             ELSE WithNewCircuit(popped, id_a, id_b)
    /\ UNCHANGED not_manager

NextManager == connect_shortest_edge

SpecManager == InitManager /\ [][NextManager]_vars

(***************************************************************************)
(* The circuits (SpecManager).                                             *)
(***************************************************************************)
\* The boxes a chain of processed edges links to the boxes of a set, the
\* chains having at most k edges.
RECURSIVE LinkedTo(_, _, _)
LinkedTo(boxes, edges, k) ==
    IF k = 0 THEN boxes
    ELSE LinkedTo(boxes \cup { e[1] : e \in { f \in edges : f[2] \in boxes } }
                        \cup { e[2] : e \in { f \in edges : f[1] \in boxes } },
                  edges, k - 1)

\* The circuits are a partition of the boxes some processed edge touches,
\* by the chains of processed edges.
CircuitsPartition ==
    LET boxes == DOMAIN manager.points
        circuits == manager.circuits
        processed == manager.processed
        touched == { e[1] : e \in processed } \cup { e[2] : e \in processed }
    IN  /\ \A c, d \in DOMAIN circuits :
               c # d => circuits[c].points \cap circuits[d].points = {}
        /\ \A c \in DOMAIN circuits :
               /\ circuits[c].unique_id = c
               /\ circuits[c].size = Cardinality(circuits[c].points)
               /\ circuits[c].points \subseteq boxes
               /\ \A i \in boxes :
                      manager.points[i].circuit_id = c
                          <=> i \in circuits[c].points
        /\ \A i \in boxes :
               /\ manager.points[i].circuit_id = 0 <=> i \notin touched
               /\ manager.points[i].circuit_id # 0 =>
                      manager.points[i].circuit_id \in DOMAIN circuits
        /\ \A i, j \in touched :
               manager.points[i].circuit_id = manager.points[j].circuit_id
                   <=> j \in LinkedTo({i}, processed, Cardinality(boxes))

\* C30: after any sequence of connect_shortest_edge calls the circuits
\* partition the connected boxes (disjoint point sets, size equal to the
\* number of points, circuit_id c exactly for the points of circuits[c] and
\* None exactly for the boxes no processed edge touches, the same circuit
\* exactly for boxes linked by a chain of processed edges), and a call on
\* two boxes of one circuit returns None and changes no circuit.
CircuitsStayPartition ==
    /\ [](manager.pc # "none" => CircuitsPartition)
    /\ [][(/\ manager.distances_pq # {}
           /\ manager.points[Shortest(manager.distances_pq)[2][1]].circuit_id # 0
           /\ manager.points[Shortest(manager.distances_pq)[2][1]].circuit_id
                = manager.points[Shortest(manager.distances_pq)[2][2]].circuit_id)
             => /\ manager'.returned = <<>>
                /\ manager'.circuits = manager.circuits
                /\ manager'.points = manager.points]_vars

\* Two circuits were made and joined into one of four boxes, and the last
\* call was on two boxes of that circuit.
JoinedThenNoneWitness ==
    /\ manager.pc = "connected"
    /\ manager.returned = <<>>
    /\ manager.next_circuit_id = 3
    /\ \E c \in DOMAIN manager.circuits : manager.circuits[c].size = 4

====
